---- MODULE Spec2Model ----
(***************************************************************************)
(* countdown: a terminal list of named, timestamped events with an add /   *)
(* edit form.  The module models MainModel.Update of both program variants *)
(* (the plain one and the historical-facts one), the event store, and the  *)
(* date text conversions the form uses.                                    *)
(*                                                                         *)
(* Of the list widget (bubbles/list), Items() is the sequence `events`,    *)
(* Index() is `cursor` and the filter is `filter`.  Text is a sequence of  *)
(* one-character strings.  The local time zone is UTC.                     *)
(***************************************************************************)
EXTENDS Integers, Sequences, FiniteSets, TLC

(***************************************************************************)
(* Program constants.                                                      *)
(***************************************************************************)
secondsPerYear == 31557600
secondsPerDay == 86400
secondsPerHour == 3600
secondsPerMinute == 60
minListWidth == 28
minDetailWidth == 50
minTimelineWidth == 45
\* the same three minima in the historical-facts variant
factsMinListWidth == 20
factsMinDetailWidth == 35
factsMinTimelineWidth == 50
\* t.CharLimit of the name field and of the date field
nameCharLimit == 50
dateCharLimit == 19

inputNameField == 0
inputTimeField == 1
inputCancelButton == 2
inputSubmitButton == 3

\* inputTimeFormShort = "2006-01-02", inputTimeFormLong = "2006-01-02 15:04:05"
inputTimeFormShort == <<"2","0","0","6","-","0","1","-","0","2">>
inputTimeFormLong == inputTimeFormShort \o <<" ","1","5",":","0","4",":","0","5">>

(***************************************************************************)
(* Bounds of the model.                                                    *)
(***************************************************************************)
\* the most events the collection is let grow to
MaxEvents == 2
\* the most events in the store file found at startup
MaxLoad == 2

(***************************************************************************)
(* Civil time (Go's time package, zone UTC).                               *)
(***************************************************************************)
Digits == {"0","1","2","3","4","5","6","7","8","9"}

DigitVal(c) ==
  CASE c = "0" -> 0 [] c = "1" -> 1 [] c = "2" -> 2 [] c = "3" -> 3
    [] c = "4" -> 4 [] c = "5" -> 5 [] c = "6" -> 6 [] c = "7" -> 7
    [] c = "8" -> 8 [] c = "9" -> 9

DigitChar(n) ==
  CASE n = 0 -> "0" [] n = 1 -> "1" [] n = 2 -> "2" [] n = 3 -> "3"
    [] n = 4 -> "4" [] n = 5 -> "5" [] n = 6 -> "6" [] n = 7 -> "7"
    [] n = 8 -> "8" [] n = 9 -> "9"

IsLeap(y) == (y % 4 = 0) /\ ((y % 100 # 0) \/ (y % 400 = 0))

\* daysIn(month, year)
DaysIn(mo, y) ==
  IF mo = 2 THEN (IF IsLeap(y) THEN 29 ELSE 28)
  ELSE IF mo \in {4, 6, 9, 11} THEN 30 ELSE 31

\* days from 1970-01-01 to the civil date y-mo-d
DaysFromCivil(y, mo, d) ==
  LET yy  == IF mo <= 2 THEN y - 1 ELSE y
      era == yy \div 400
      yoe == yy - era * 400
      mp  == IF mo > 2 THEN mo - 3 ELSE mo + 9
      doy == (153 * mp + 2) \div 5 + d - 1
      doe == yoe * 365 + yoe \div 4 - yoe \div 100 + doy
  IN  era * 146097 + doe - 719468

\* the civil date of the day `days` after 1970-01-01, computed in steps:
\* the era of 400 years, the day and year of the era, the day of the year,
\* the month counted from March
CivilYMD(y, mo, d) ==
  [year |-> y + (IF mo <= 2 THEN 1 ELSE 0), month |-> mo, day |-> d]

CivilFromMp(era, yoe, doy, mp) ==
  CivilYMD(yoe + era * 400, IF mp < 10 THEN mp + 3 ELSE mp - 9,
           doy - (153 * mp + 2) \div 5 + 1)

CivilFromDoy(era, yoe, doy) == CivilFromMp(era, yoe, doy, (5 * doy + 2) \div 153)

CivilFromYoe(era, doe, yoe) ==
  CivilFromDoy(era, yoe, doe - (365 * yoe + yoe \div 4 - yoe \div 100))

CivilFromDoe(era, doe) ==
  CivilFromYoe(era, doe,
    (doe - doe \div 1460 + doe \div 36524 - doe \div 146096) \div 365)

CivilFromEra(z, era) == CivilFromDoe(era, z - era * 146097)

CivilFromDays(days) == CivilFromEra(days + 719468, (days + 719468) \div 146097)

\* time.Date(y, mo, d, h, mi, s, 0, time.Local).Unix()
UnixOf(y, mo, d, h, mi, s) ==
  DaysFromCivil(y, mo, d) * secondsPerDay
    + h * secondsPerHour + mi * secondsPerMinute + s

\* time.Unix(ts, 0) broken into its civil fields
CivilWithClock(c, days, rem) ==
  [year |-> c.year, month |-> c.month, day |-> c.day,
   hour |-> rem \div secondsPerHour,
   minute |-> (rem % secondsPerHour) \div secondsPerMinute,
   second |-> rem % secondsPerMinute,
   weekday |-> (days + 4) % 7]

CivilOf(ts) ==
  CivilWithClock(CivilFromDays(ts \div secondsPerDay), ts \div secondsPerDay,
                 ts % secondsPerDay)

Pad2(n) == <<DigitChar(n \div 10), DigitChar(n % 10)>>

Pad4(n) ==
  <<DigitChar(n \div 1000), DigitChar((n \div 100) % 10),
    DigitChar((n \div 10) % 10), DigitChar(n % 10)>>

\* the layout "2006-01-02 15:04:05" applied to civil fields
FormatLongCivil(c) ==
  Pad4(c.year) \o <<"-">> \o Pad2(c.month) \o <<"-">> \o Pad2(c.day)
    \o <<" ">> \o Pad2(c.hour) \o <<":">> \o Pad2(c.minute)
    \o <<":">> \o Pad2(c.second)

\* ts.Format(inputTimeFormLong)
FormatLong(ts) == FormatLongCivil(CivilOf(ts))

(***************************************************************************)
(* time.ParseInLocation for the two layouts of the form.  The layout is    *)
(* walked chunk by chunk over a parse state: ok, the next position in the  *)
(* value, and the fields read so far.                                      *)
(***************************************************************************)
IsDigitAt(s, p) == p <= Len(s) /\ s[p] \in Digits

\* the chunks of the two layouts (nextStdChunk)
ShortChunks == <<"2006", "-", "01", "-", "02">>
LongChunks == ShortChunks \o <<" ", "15", ":", "04", ":", "05">>
LayoutChunks(layout) ==
  IF layout = inputTimeFormLong THEN LongChunks ELSE ShortChunks

ParseStart ==
  [ok |-> TRUE, pos |-> 1, year |-> 0, month |-> 0, day |-> 0, hour |-> 0,
   minute |-> 0, second |-> 0]

\* getnum(value, fixed): [ok, val, pos], one or two digits, two when fixed
GetNum(s, p, fixed) ==
  IF ~IsDigitAt(s, p) THEN [ok |-> FALSE, val |-> 0, pos |-> p]
  ELSE IF ~IsDigitAt(s, p + 1)
    THEN [ok |-> ~fixed, val |-> DigitVal(s[p]), pos |-> p + 1]
    ELSE [ok |-> TRUE, val |-> 10 * DigitVal(s[p]) + DigitVal(s[p + 1]),
          pos |-> p + 2]

\* stdLongYear: four digits
GetYear(s, p) ==
  IF \A i \in p .. p + 3 : IsDigitAt(s, i)
    THEN [ok |-> TRUE,
          val |-> 1000 * DigitVal(s[p]) + 100 * DigitVal(s[p + 1])
                    + 10 * DigitVal(s[p + 2]) + DigitVal(s[p + 3]),
          pos |-> p + 4]
    ELSE [ok |-> FALSE, val |-> 0, pos |-> p]

\* skip(value, " "): a space of the layout matches any run of spaces
SpaceEnd(s, p) ==
  CHOOSE q \in p .. Len(s) + 1 :
    /\ \A i \in p .. q - 1 : s[i] = " "
    /\ (q = Len(s) + 1 \/ s[q] # " ")

\* the parse state after a number n was read for chunk std
TakeNum(st, std, n) ==
  IF ~n.ok THEN [st EXCEPT !.ok = FALSE]
  ELSE IF std = "2006" THEN [st EXCEPT !.pos = n.pos, !.year = n.val]
  ELSE IF std = "01"
    THEN [st EXCEPT !.pos = n.pos, !.month = n.val,
                    !.ok = n.val >= 1 /\ n.val <= 12]
  ELSE IF std = "02" THEN [st EXCEPT !.pos = n.pos, !.day = n.val]
  ELSE IF std = "15"
    THEN [st EXCEPT !.pos = n.pos, !.hour = n.val, !.ok = n.val < 24]
  ELSE IF std = "04"
    THEN [st EXCEPT !.pos = n.pos, !.minute = n.val, !.ok = n.val < 60]
  ELSE [st EXCEPT !.pos = n.pos, !.second = n.val, !.ok = n.val < 60]

\* one chunk of the layout matched against the value at st.pos
ParseChunk(std, s, st) ==
  IF ~st.ok THEN st
  ELSE IF std = "2006" THEN TakeNum(st, std, GetYear(s, st.pos))
  ELSE IF std = "15" THEN TakeNum(st, std, GetNum(s, st.pos, FALSE))
  ELSE IF std \in {"01", "02", "04", "05"}
    THEN TakeNum(st, std, GetNum(s, st.pos, TRUE))
  ELSE IF std = " "
    THEN IF st.pos <= Len(s) /\ s[st.pos] # " " THEN [st EXCEPT !.ok = FALSE]
         ELSE [st EXCEPT !.pos = SpaceEnd(s, st.pos)]
  ELSE IF st.pos <= Len(s) /\ s[st.pos] = std THEN [st EXCEPT !.pos = st.pos + 1]
  ELSE [st EXCEPT !.ok = FALSE]

RECURSIVE ParseChunks(_, _, _, _)
ParseChunks(chunks, i, s, st) ==
  IF i > Len(chunks) THEN st
  ELSE ParseChunks(chunks, i + 1, s, ParseChunk(chunks[i], s, st))

\* the end of Parse: no text left over, the day within its month
ParseEnd(s, st) ==
  IF /\ st.ok
     /\ st.pos = Len(s) + 1
     /\ st.day >= 1
     /\ st.day <= DaysIn(st.month, st.year)
    THEN [ok |-> TRUE,
          ts |-> UnixOf(st.year, st.month, st.day, st.hour, st.minute,
                        st.second)]
    ELSE [ok |-> FALSE, ts |-> 0]

\* time.ParseInLocation(layout, value, time.Local): [ok, ts]
ParseInLocation(layout, s) ==
  ParseEnd(s, ParseChunks(LayoutChunks(layout), 1, s, ParseStart))

(***************************************************************************)
(* Texts and instants the model draws its inputs from.                     *)
(***************************************************************************)
\* "2025-12-31", " 18:30:00", "31-12-2025"
TextD == <<"2","0","2","5","-","1","2","-","3","1">>
TextT == <<" ","1","8",":","3","0",":","0","0">>
TextX == <<"3","1","-","1","2","-","2","0","2","5">>

\* what the user pastes into the name field and into the date field
NameChunks == {<<"a">>}
DateChunks == {TextD, TextT, TextX}

\* the texts the user is let build in each field
NameTexts == {<<>>} \cup NameChunks
DateTexts == {<<>>, TextD, TextD \o TextT, TextX}

\* the names and times of the events of a store file found at startup
LoadNames == {<<"a">>, <<"b">>}
LoadTimes == {UnixOf(2025, 12, 31, 0, 0, 0), UnixOf(2025, 12, 31, 18, 30, 0)}
LoadEvents == [Name : LoadNames, Time : LoadTimes]

\* the instants the wall clock shows
NowPoints == {UnixOf(2025, 12, 30, 12, 0, 0), UnixOf(2025, 12, 31, 12, 0, 0)}

\* the terminal sizes of a resize message
Sizes == {<<120, 40>>, <<200, 50>>}

\* the payloads of the background fetch's completion message
FetchResults == {[err |-> TRUE, events |-> <<>>],
                 [err |-> FALSE, events |-> <<[text |-> "fact", year |-> 1970]>>]}

SeqsUpTo(S, n) == UNION {[1 .. k -> S] : k \in 0 .. n}

(***************************************************************************)
(* State.                                                                  *)
(***************************************************************************)
VARIABLES
  variant,          \* 1: the plain program, 2: the historical-facts program
  status,           \* "running", "quit" (tea.Quit), "panicked" (panic(err)
                    \* after a failed read or write) or "faulted" (a nil
                    \* SelectedItem() asserted to be an Event)
  state,            \* sessionState
  focus,            \* m.focus
  events,           \* m.events.Items()
  cursor,           \* m.events.Index()
  filter,           \* the list's filter prompt: "off" (list.Unfiltered),
                    \* "typing" (list.Filtering, no text yet, every item
                    \* visible), "none" (list.Filtering, a text that
                    \* matches no item), "matching" (list.Filtering, the
                    \* text FilterText) or "applied" (list.FilterApplied
                    \* with the text FilterText)
  nameInput,        \* m.inputs[0].Value()
  dateInput,        \* m.inputs[1].Value()
  inputStatus,      \* m.inputStatus
  preview,          \* [datePreview, dateValid]: m.datePreview, m.dateValid
  editIndex,        \* m.editIndex
  window,           \* <<m.windowWidth, m.windowHeight>>
  widths,           \* [list, detail, timeline]: m.listWidth, ...
  store,            \* the events of the persisted events.json
  now,              \* time.Now()
  onThisDay,        \* [loading, err, events]: m.onThisDayLoading, ...
  fetchInFlight,    \* the fetchOnThisDay command has not delivered its message
  lastOp,           \* what the message handled last did to the collection or
                    \* the form: "load", "remove", "submit", "reject",
                    \* "cancel", or "none"
  probe             \* the arguments and the result of the display function
                    \* applied last, for the specifications of the display
                    \* functions; NoProbe in the others

vars == <<variant, status, state, focus, events, cursor, nameInput, dateInput,
          inputStatus, preview, editIndex, window, widths,
          store, now, onThisDay, fetchInFlight, lastOp, filter, probe>>

form == <<focus, nameInput, dateInput, inputStatus, preview, editIndex>>

(***************************************************************************)
(* Helpers of Update.                                                      *)
(***************************************************************************)
Max(a, b) == IF a > b THEN a ELSE b

minWidths(v) ==
  IF v = 1
    THEN [list |-> minListWidth, detail |-> minDetailWidth,
          timeline |-> minTimelineWidth]
    ELSE [list |-> factsMinListWidth, detail |-> factsMinDetailWidth,
          timeline |-> factsMinTimelineWidth]

\* the percentages of the three panes, per variant
paneShare(v) ==
  IF v = 1 THEN [list |-> 25, detail |-> 40, timeline |-> 35]
  ELSE [list |-> 15, detail |-> 25, timeline |-> 60]

\* pane widths that are the shares of the width even below the minima
widthsOfShares(min, share, availableWidth) ==
  [list |-> (availableWidth * share.list) \div 100,
   detail |-> (availableWidth * share.detail) \div 100,
   timeline |-> (availableWidth * share.timeline) \div 100]

widthsOf(min, share, availableWidth) ==
  IF availableWidth < min.list + min.detail + min.timeline
    THEN min
    ELSE [list |-> Max(min.list, (availableWidth * share.list) \div 100),
          detail |-> Max(min.detail, (availableWidth * share.detail) \div 100),
          timeline |-> Max(min.timeline,
                           (availableWidth * share.timeline) \div 100)]

calculateWidths(v, w) == widthsOf(minWidths(v), paneShare(v), w - 6)

\* a RemoveItem that drops the last item whatever the index
RemoveItemLast(items, index) ==
  IF Len(items) = 0 THEN items ELSE SubSeq(items, 1, Len(items) - 1)

\* list.RemoveItem: no-op when the index is past the end
RemoveItem(items, index) ==
  IF index >= Len(items) THEN items
  ELSE [i \in 1 .. Len(items) - 1 |->
          IF i <= index THEN items[i] ELSE items[i + 1]]

\* list.InsertItem: the item lands at 0-based position index
InsertItem(items, index, e) ==
  IF index >= Len(items) THEN Append(items, e)
  ELSE [i \in 1 .. Len(items) + 1 |->
          IF i <= index THEN items[i]
          ELSE IF i = index + 1 THEN e ELSE items[i - 1]]

\* an index that appends the new item
InsertIndexEnd(items, e) == Len(items)

\* an index computed with > in place of >=
InsertIndexBeforeEqual(items, e) ==
  Cardinality({i \in 1 .. Len(items) : e.Time > items[i].Time})

\* the index the submit computes: one past every item not later than e
InsertIndex(items, e) ==
  Cardinality({i \in 1 .. Len(items) : e.Time >= items[i].Time})

\* a submit that forgets to remove the edit target
SubmitItemsKeepOld(items, st, target, e) ==
  IF Len(items) = 0 THEN InsertItem(items, 0, e)
  ELSE InsertItem(items, InsertIndex(items, e), e)

\* the items after a successful submit in session state st
SubmitItems(items, st, target, e) ==
  LET rest == IF st = "showEdit" THEN RemoveItem(items, target) ELSE items
  IN  IF Len(rest) = 0 THEN InsertItem(rest, 0, e)
      ELSE InsertItem(rest, InsertIndex(rest, e), e)

\* a list widget that puts its cursor on the last item whenever it handles
\* a message
ClampCursorToBottom(c, n) == Max(0, n - 1)

\* the list widget keeps its cursor on an item whenever it handles a message
ClampCursor(c, n) == IF c > n - 1 THEN Max(0, n - 1) ELSE c

\* textinput: text typed or pasted at the end, cut at the CharLimit
TypeInto(text, runes, limit) ==
  LET all == text \o runes
  IN  IF Len(all) <= limit THEN all ELSE SubSeq(all, 1, limit)

ErrNameRequired == "event name is required"
ErrDateRequired == "date/time is required"
ErrInvalidFormat == "invalid date format"

\* a validateInputs without the empty-name check
validatedNoNameCheck(name, t, parsed) ==
  IF t = <<>> THEN [err |-> ErrDateRequired, event |-> [Name |-> <<>>, Time |-> 0]]
  ELSE IF ~parsed.ok THEN [err |-> ErrInvalidFormat, event |-> [Name |-> <<>>, Time |-> 0]]
  ELSE [err |-> "", event |-> [Name |-> name, Time |-> parsed.ts]]

\* a validateInputs without the empty-date check
validatedNoDateCheck(name, t, parsed) ==
  IF name = <<>> THEN [err |-> ErrNameRequired, event |-> [Name |-> <<>>, Time |-> 0]]
  ELSE IF ~parsed.ok THEN [err |-> ErrInvalidFormat, event |-> [Name |-> <<>>, Time |-> 0]]
  ELSE [err |-> "", event |-> [Name |-> name, Time |-> parsed.ts]]

\* validateInputs after the parse: [err, event], err = "" on success
validated(name, t, parsed) ==
  IF name = <<>> THEN [err |-> ErrNameRequired, event |-> [Name |-> <<>>, Time |-> 0]]
  ELSE IF t = <<>> THEN [err |-> ErrDateRequired, event |-> [Name |-> <<>>, Time |-> 0]]
  ELSE IF ~parsed.ok THEN [err |-> ErrInvalidFormat, event |-> [Name |-> <<>>, Time |-> 0]]
  ELSE [err |-> "", event |-> [Name |-> name, Time |-> parsed.ts]]

\* the layout validateInputs parses the date text with
validateLayout(t) ==
  IF Len(t) < Len(inputTimeFormLong) THEN inputTimeFormShort
  ELSE inputTimeFormLong

validateInputs(name, t) ==
  validated(name, t, ParseInLocation(validateLayout(t), t))

WeekdayName(n) ==
  CASE n = 0 -> "Sun" [] n = 1 -> "Mon" [] n = 2 -> "Tue" [] n = 3 -> "Wed"
    [] n = 4 -> "Thu" [] n = 5 -> "Fri" [] n = 6 -> "Sat"

MonthName(n) ==
  CASE n = 1 -> "Jan" [] n = 2 -> "Feb" [] n = 3 -> "Mar" [] n = 4 -> "Apr"
    [] n = 5 -> "May" [] n = 6 -> "Jun" [] n = 7 -> "Jul" [] n = 8 -> "Aug"
    [] n = 9 -> "Sep" [] n = 10 -> "Oct" [] n = 11 -> "Nov" [] n = 12 -> "Dec"

RECURSIVE NumStr(_)
NumStr(n) == IF n < 10 THEN DigitChar(n) ELSE NumStr(n \div 10) \o DigitChar(n % 10)

\* the layout "Mon, Jan 2, 2006 at 3:04 PM" applied to civil fields
FormatPreviewCivil(c) ==
  WeekdayName(c.weekday) \o ", " \o MonthName(c.month) \o " "
    \o NumStr(c.day) \o ", " \o NumStr(c.year) \o " at "
    \o NumStr(IF c.hour % 12 = 0 THEN 12 ELSE c.hour % 12)
    \o ":" \o DigitChar(c.minute \div 10) \o DigitChar(c.minute % 10)
    \o (IF c.hour >= 12 THEN " PM" ELSE " AM")

\* ts.Format("Mon, Jan 2, 2006 at 3:04 PM")
FormatPreview(ts) == FormatPreviewCivil(CivilOf(ts))

\* a preview that never carries the mark of a past event
previewedUnmarked(dateStr, parsed, clock) ==
  IF dateStr = <<>> THEN [datePreview |-> "", dateValid |-> FALSE]
  ELSE IF ~parsed.ok
    THEN [datePreview |-> "Invalid date format", dateValid |-> FALSE]
  ELSE [datePreview |-> FormatPreview(parsed.ts), dateValid |-> TRUE]

\* updateDatePreview after the parse: [datePreview, dateValid]
previewed(dateStr, parsed, clock) ==
  IF dateStr = <<>> THEN [datePreview |-> "", dateValid |-> FALSE]
  ELSE IF ~parsed.ok
    THEN [datePreview |-> "Invalid date format", dateValid |-> FALSE]
  ELSE [datePreview |-> FormatPreview(parsed.ts)
                          \o (IF parsed.ts < clock THEN " (past event)" ELSE ""),
        dateValid |-> TRUE]

\* the layout updateDatePreview parses the date text with
previewLayout(dateStr) ==
  IF Len(dateStr) <= Len(inputTimeFormShort) THEN inputTimeFormShort
  ELSE inputTimeFormLong

updateDatePreview(dateStr, clock) ==
  previewed(dateStr, ParseInLocation(previewLayout(dateStr), dateStr), clock)

\* nextGolangAnniversary
GolangName ==
  <<"G","o","l","a","n","g","'","s"," ","B","i","r","t","h","d","a","y">>

\* an anniversary that is always the one of the clock's year
anniversaryThisYear(clock, year) ==
  [Name |-> GolangName, Time |-> UnixOf(year, 11, 10, 0, 0, 0)]

anniversaryOf(clock, year) ==
  IF clock < UnixOf(year, 11, 10, 0, 0, 0)
    THEN [Name |-> GolangName, Time |-> UnixOf(year, 11, 10, 0, 0, 0)]
    ELSE [Name |-> GolangName, Time |-> UnixOf(year + 1, 11, 10, 0, 0, 0)]

nextGolangAnniversary(clock) == anniversaryOf(clock, CivilOf(clock).year)

\* readEventsFile: the store file is created and seeded when it does not exist
readEventsFile(exists, file, clock) ==
  IF ~exists THEN <<nextGolangAnniversary(clock)>> ELSE file

NoPreview == [datePreview |-> "", dateValid |-> FALSE]

\* a resetInputs that leaves the focus where it is
FormDefaultsKeepFocus ==
  /\ focus' = focus
  /\ nameInput' = <<>>
  /\ dateInput' = <<>>
  /\ inputStatus' = ""
  /\ preview' = NoPreview
  /\ editIndex' = -1

\* resetInputs leaves these values in the form
FormDefaults ==
  /\ focus' = 0
  /\ nameInput' = <<>>
  /\ dateInput' = <<>>
  /\ inputStatus' = ""
  /\ preview' = NoPreview
  /\ editIndex' = -1

\* a save that writes nothing
saveNothing(items, ok) == store' = store /\ status' = "running"

\* a save whose failure the caller passes over
saveIgnoringFailure(items, ok) ==
  store' = (IF ok THEN items ELSE store) /\ status' = "running"

\* saveEventsToFile: the store holds the items, or the write fails
saveEventsToFile(items, ok) ==
  IF ok THEN store' = items /\ status' = "running"
  ELSE store' = store /\ status' = "panicked"

(***************************************************************************)
(* The bytes of events.json.  A file is a sequence of tokens: the six      *)
(* punctuation marks, white space as it is written, a string literal as    *)
(* the characters between its quotes, and a number.                        *)
(***************************************************************************)
Punct(c) == [k |-> c, s |-> <<>>, n |-> 0]
Space(chars) == [k |-> "ws", s |-> chars, n |-> 0]
Str(chars) == [k |-> "str", s |-> chars, n |-> 0]
Num(n) == [k |-> "num", s |-> <<>>, n |-> n]

\* the keys of Event's struct tags
jsonName == <<"n","a","m","e">>
jsonTs == <<"t","s">>

\* encoding/json writes <, > and & of a string as \u escapes
EncodeChar(c) ==
  IF c = "<" THEN "\\u003c"
  ELSE IF c = ">" THEN "\\u003e"
  ELSE IF c = "&" THEN "\\u0026"
  ELSE c

DecodeChar(c) ==
  IF c = "\\u003c" THEN "<"
  ELSE IF c = "\\u003e" THEN ">"
  ELSE IF c = "\\u0026" THEN "&"
  ELSE c

EncodeString(chars) == [i \in 1 .. Len(chars) |-> EncodeChar(chars[i])]
DecodeString(chars) == [i \in 1 .. Len(chars) |-> DecodeChar(chars[i])]

\* one Event as json.MarshalIndent(events, "", "  ") writes it
MarshalEvent(e) ==
  <<Space(<<"\n"," "," ">>), Punct("{"),
    Space(<<"\n"," "," "," "," ">>), Str(jsonName), Punct(":"), Space(<<" ">>),
    Str(EncodeString(e.Name)), Punct(","),
    Space(<<"\n"," "," "," "," ">>), Str(jsonTs), Punct(":"), Space(<<" ">>),
    Num(e.Time),
    Space(<<"\n"," "," ">>), Punct("}")>>

RECURSIVE MarshalEvents(_, _)
MarshalEvents(items, i) ==
  IF i > Len(items) THEN <<>>
  ELSE MarshalEvent(items[i])
         \o (IF i < Len(items) THEN <<Punct(",")>> ELSE <<>>)
         \o MarshalEvents(items, i + 1)

\* json.MarshalIndent(events, "", "  ") of a slice that is not nil
MarshalIndent(items) ==
  IF Len(items) = 0 THEN <<Punct("["), Punct("]")>>
  ELSE <<Punct("[")>> \o MarshalEvents(items, 1)
         \o <<Space(<<"\n">>), Punct("]")>>

\* the kind of the token at p, "eof" past the end
Kind(t, p) == IF p >= 1 /\ p <= Len(t) THEN t[p].k ELSE "eof"

NoEvent == [Name |-> <<>>, Time |-> 0]
ParseFailed == [ok |-> FALSE, pos |-> 0, event |-> NoEvent]

\* an object member that reads the name only
AssignNameOnly(ev, key, value) ==
  IF key = jsonName /\ value.k = "str"
    THEN [ok |-> TRUE, event |-> [ev EXCEPT !.Name = DecodeString(value.s)]]
  ELSE IF key = jsonName THEN [ok |-> FALSE, event |-> ev]
  ELSE [ok |-> TRUE, event |-> ev]

\* one object member stored into the Event: "name" takes a string, "ts" a
\* number, any other key is skipped
Assign(ev, key, value) ==
  IF key = jsonName /\ value.k = "str"
    THEN [ok |-> TRUE, event |-> [ev EXCEPT !.Name = DecodeString(value.s)]]
  ELSE IF key = jsonTs /\ value.k = "num"
    THEN [ok |-> TRUE, event |-> [ev EXCEPT !.Time = value.n]]
  ELSE IF key \in {jsonName, jsonTs} THEN [ok |-> FALSE, event |-> ev]
  ELSE [ok |-> TRUE, event |-> ev]

\* the members of an object from position p on: [ok, pos, event], pos the
\* position after the closing brace
RECURSIVE ParseMembers(_, _, _)
ParseMembers(t, p, ev) ==
  IF ~(Kind(t, p) = "str" /\ Kind(t, p + 1) = ":"
         /\ Kind(t, p + 2) \in {"str", "num"})
    THEN ParseFailed
  ELSE IF ~Assign(ev, DecodeString(t[p].s), t[p + 2]).ok THEN ParseFailed
  ELSE IF Kind(t, p + 3) = ","
    THEN ParseMembers(t, p + 4,
                      Assign(ev, DecodeString(t[p].s), t[p + 2]).event)
  ELSE IF Kind(t, p + 3) = "}"
    THEN [ok |-> TRUE, pos |-> p + 4,
          event |-> Assign(ev, DecodeString(t[p].s), t[p + 2]).event]
  ELSE ParseFailed

ParseObject(t, p) ==
  IF Kind(t, p) # "{" THEN ParseFailed
  ELSE IF Kind(t, p + 1) = "}"
    THEN [ok |-> TRUE, pos |-> p + 2, event |-> NoEvent]
  ELSE ParseMembers(t, p + 1, NoEvent)

\* the elements of the array from position p on: [ok, events]
RECURSIVE ParseElems(_, _, _)
ParseElemsAfter(t, obj, acc) ==
  IF ~obj.ok THEN [ok |-> FALSE, events |-> <<>>]
  ELSE IF Kind(t, obj.pos) = ","
    THEN ParseElems(t, obj.pos + 1, Append(acc, obj.event))
  ELSE IF Kind(t, obj.pos) = "]" /\ obj.pos = Len(t)
    THEN [ok |-> TRUE, events |-> Append(acc, obj.event)]
  ELSE [ok |-> FALSE, events |-> <<>>]

ParseElems(t, p, acc) == ParseElemsAfter(t, ParseObject(t, p), acc)

ParseArray(t) ==
  IF Kind(t, 1) # "[" THEN [ok |-> FALSE, events |-> <<>>]
  ELSE IF Kind(t, 2) = "]" THEN [ok |-> Len(t) = 2, events |-> <<>>]
  ELSE ParseElems(t, 2, <<>>)

IsToken(tok) == tok.k # "ws"

\* json.Unmarshal(bytes, &events): [ok, events]; white space between the
\* tokens does not count
Unmarshal(file) == ParseArray(SelectSeq(file, IsToken))

(***************************************************************************)
(* The display functions: time.Until, getUrgencyColor, countdownParser and *)
(* renderTimeline.  An instant or a duration that may lie outside 32 bits  *)
(* is a record [q, r] that stands for q * 400 + r seconds, 0 <= r < 400;   *)
(* 400 divides secondsPerYear, secondsPerDay and secondsPerHour.           *)
(***************************************************************************)
Wide(x) == [q |-> x \div 400, r |-> x % 400]

WideSub(a, b) ==
  [q |-> a.q - b.q + ((a.r - b.r) \div 400), r |-> (a.r - b.r) % 400]

WideNeg(a) == WideSub(Wide(0), a)

WideLess(a, b) == a.q < b.q \/ (a.q = b.q /\ a.r < b.r)

WideAbs(a) == IF a.q < 0 THEN WideNeg(a) ELSE a

\* time.Date(y, mo, d, h, mi, s).Unix() for any year 0000..9999
WideUnixOf(y, mo, d, h, mi, s) ==
  [q |-> DaysFromCivil(y, mo, d) * (secondsPerDay \div 400)
           + ((h * 3600 + mi * 60 + s) \div 400),
   r |-> (h * 3600 + mi * 60 + s) % 400]

\* the largest time.Duration, 1<<63 - 1 nanoseconds, in whole seconds:
\* 9223372036
maxDuration == [q |-> 23058430, r |-> 36]

\* t.Sub(u) keeps the difference within the range of a Duration
Saturated(d) ==
  IF WideLess(maxDuration, d) THEN maxDuration
  ELSE IF WideLess(d, WideNeg(maxDuration)) THEN WideNeg(maxDuration)
  ELSE d

\* time.Until(time.Unix(ts, 0)) at the clock, in whole seconds
Until(ts, clock) == Saturated(WideSub(ts, Wide(clock)))

\* a classification that takes no account of the sign of the difference
urgencyOfNoPast(diff) ==
  IF WideLess(diff, Wide(1 * secondsPerDay)) THEN "cUrgency6"
  ELSE IF WideLess(diff, Wide(3 * secondsPerDay)) THEN "cUrgency5"
  ELSE IF WideLess(diff, Wide(7 * secondsPerDay)) THEN "cUrgency4"
  ELSE IF WideLess(diff, Wide(14 * secondsPerDay)) THEN "cUrgency3"
  ELSE IF WideLess(diff, Wide(30 * secondsPerDay)) THEN "cUrgency2"
  ELSE "cUrgency1"

\* a classification whose limits belong to the band below them
urgencyOfInclusive(diff) ==
  IF WideLess(diff, Wide(0)) THEN "cPast"
  ELSE IF WideLess(diff, Wide(1 * secondsPerDay + 1)) THEN "cUrgency6"
  ELSE IF WideLess(diff, Wide(3 * secondsPerDay + 1)) THEN "cUrgency5"
  ELSE IF WideLess(diff, Wide(7 * secondsPerDay + 1)) THEN "cUrgency4"
  ELSE IF WideLess(diff, Wide(14 * secondsPerDay + 1)) THEN "cUrgency3"
  ELSE IF WideLess(diff, Wide(30 * secondsPerDay + 1)) THEN "cUrgency2"
  ELSE "cUrgency1"

\* the color a duration gets: days := diff.Hours() / 24 compared with
\* 1, 3, 7, 14 and 30
urgencyOf(diff) ==
  IF WideLess(diff, Wide(0)) THEN "cPast"
  ELSE IF WideLess(diff, Wide(1 * secondsPerDay)) THEN "cUrgency6"
  ELSE IF WideLess(diff, Wide(3 * secondsPerDay)) THEN "cUrgency5"
  ELSE IF WideLess(diff, Wide(7 * secondsPerDay)) THEN "cUrgency4"
  ELSE IF WideLess(diff, Wide(14 * secondsPerDay)) THEN "cUrgency3"
  ELSE IF WideLess(diff, Wide(30 * secondsPerDay)) THEN "cUrgency2"
  ELSE "cUrgency1"

getUrgencyColor(ts, clock) == urgencyOf(Until(ts, clock))

\* days, hours, minutes and seconds by successive subtraction, as in
\* countdownParser, of the rest that years leave
unitsWithMinutes(years, rest, days, hours, minutes) ==
  [years |-> years, days |-> days, hours |-> hours, minutes |-> minutes,
   seconds |-> rest - days * secondsPerDay - hours * secondsPerHour
                 - minutes * secondsPerMinute]

unitsWithHours(years, rest, days, hours) ==
  unitsWithMinutes(years, rest, days, hours,
    (rest - days * secondsPerDay - hours * secondsPerHour)
      \div secondsPerMinute)

unitsWithDays(years, rest, days) ==
  unitsWithHours(years, rest, days,
    (rest - days * secondsPerDay) \div secondsPerHour)

unitsWithYears(years, rest) ==
  unitsWithDays(years, rest, rest \div secondsPerDay)

\* units whose years are 400 days long
unitsOfLongYear(diff) ==
  unitsWithYears(diff.q \div secondsPerDay,
                 (diff.q % secondsPerDay) * 400 + diff.r)

\* years := diff / secondsPerYear and the rest, diff - years*secondsPerYear,
\* of a duration that is not negative
unitsOf(diff) ==
  unitsWithYears(diff.q \div (secondsPerYear \div 400),
                 (diff.q % (secondsPerYear \div 400)) * 400 + diff.r)

\* countdownParser, and the same lines of detailsString: isPast and the units
countdownOf(diff) ==
  [isPast |-> WideLess(diff, Wide(0)), units |-> unitsOf(WideAbs(diff))]

countdownParser(ts, clock) == countdownOf(Until(ts, clock))

\* int(time.Until(t).Seconds()) when time.Now() is the clock and, with
\* part, a part of a second more: the conversion drops the part of a second
\* of the difference, toward zero
truncatedUntil(ts, clock, part) ==
  IF /\ part
     /\ WideLess(Wide(0), WideSub(ts, Wide(clock)))
     /\ ~WideLess(maxDuration, WideSub(ts, Wide(clock)))
    THEN WideSub(WideSub(ts, Wide(clock)), Wide(1))
    ELSE Until(ts, clock)

\* countdownParser at such a clock: isPast := diff < 0 of the whole seconds
countdownParserAt(ts, clock, part) == countdownOf(truncatedUntil(ts, clock, part))

\* detailsString at such a clock: isPast := diff < 0 of the seconds with
\* their part, totalSeconds := int(diff) of their size
detailsCountdown(ts, clock, part) ==
  [isPast |-> \/ WideLess(ts, Wide(clock))
              \/ (ts = Wide(clock) /\ part),
   units |-> unitsOf(WideAbs(truncatedUntil(ts, clock, part)))]

\* the texts of fmt.Sprintf("%dh %dm %ds", ...) and of its shorter and
\* longer forms
textFromSeconds(u) == NumStr(u.seconds) \o "s"

textFromMinutes(u) == NumStr(u.minutes) \o "m " \o textFromSeconds(u)

textFromHours(u) == NumStr(u.hours) \o "h " \o textFromMinutes(u)

textFromDays(u) == NumStr(u.days) \o "d " \o textFromHours(u)

textFromYears(u) == NumStr(u.years) \o "y " \o textFromDays(u)

\* countdownStr of detailsString and result of countdownParser, without
\* the colour
compactString(c) ==
  (IF c.units.years > 0 THEN textFromYears(c.units)
   ELSE IF c.units.days > 0 THEN textFromDays(c.units)
   ELSE IF c.units.hours > 0 THEN textFromHours(c.units)
   ELSE IF c.units.minutes > 0 THEN textFromMinutes(c.units)
   ELSE textFromSeconds(c.units))
    \o (IF c.isPast THEN " ago" ELSE "")

\* Go's integer division, which truncates toward zero
GoDiv(a, b) == IF a >= 0 THEN a \div b ELSE -((-a) \div b)

Min(a, b) == IF a < b THEN a ELSE b

\* renderTimeline: maxEvents := (m.windowHeight - 15) / 5 without its limits
maxEventsUncapped(h) == Max(3, GoDiv(h - 15, 5))

\* renderTimeline: maxEvents := (m.windowHeight - 15) / 5, kept in 3..8
maxEventsOf(h) == Min(8, Max(3, GoDiv(h - 15, 5)))

\* a test that also lets through an event at the very instant of the clock
IsNotBefore(e, clock) == e.Time >= clock

\* eventTime.After(now)
IsAfter(e, clock) == e.Time > clock

\* renderTimeline: the events with eventTime.After(now), in list order
futureOf(items, clock) == SelectSeq(items, LAMBDA e : IsAfter(e, clock))

\* an item put into a sorted sequence, after the items that are not later
InsertSorted(sorted, e) == InsertItem(sorted, InsertIndex(sorted, e), e)

\* sort.Slice by Time, for items whose times differ
RECURSIVE SortByTime(_)
SortByTime(items) ==
  IF Len(items) = 0 THEN <<>>
  ELSE InsertSorted(SortByTime(SubSeq(items, 1, Len(items) - 1)),
                    items[Len(items)])

\* the loop of renderTimeline over the sorted future events: the events it
\* renders and the count of its "+%d more events" row, 0 for no such row;
\* with no future event, the hint in place of the bars
timelineRows(future, maxEvents) ==
  [kind |-> IF Len(future) = 0 THEN "No upcoming events" ELSE "bars",
   budget |-> maxEvents,
   rows |-> SubSeq(future, 1, Min(Len(future), maxEvents)),
   more |-> IF Len(future) > maxEvents THEN Len(future) - maxEvents ELSE 0]

\* renderTimeline: the empty string for a list without items
renderTimeline(items, clock, h) ==
  IF Len(items) = 0
    THEN [kind |-> "", budget |-> maxEventsOf(h), rows |-> <<>>, more |-> 0]
    ELSE timelineRows(SortByTime(futureOf(items, clock)), maxEventsOf(h))

\* detailsString: progressWidth := m.detailWidth - 30, kept in 10..30
progressWidthOf(dw) == Min(30, Max(10, dw - 30))

\* the seconds of the day that dayProgress divides by secondsPerDay
daySecondsOf(u) == u.hours * 3600 + u.minutes * 60 + u.seconds

\* renderProgressBar(value, 1.0, width, color) for value = n / secondsPerDay:
\* the value kept within 0 and max, filled := int(value / max * width), at
\* most width, and width - filled empty blocks
renderProgressBar(n, width) ==
  [filled |-> Min(width, (Min(secondsPerDay, Max(0, n)) * width)
                           \div secondsPerDay),
   empty |-> width - Min(width, (Min(secondsPerDay, Max(0, n)) * width)
                                  \div secondsPerDay)]

\* the timelineEvent of every item: the event, its place i in Items() and
\* selected: i == selectedIdx
timelineEvents(items, selectedIdx) ==
  [i \in 1 .. Len(items) |->
     [Name |-> items[i].Name, Time |-> items[i].Time, index |-> i - 1,
      selected |-> (i - 1 = selectedIdx)]]

\* marker and eventStyle of a row: the diamond in TimelineSelectedStyle for
\* te.selected, else the dot in barStyle, the colour of getUrgencyColor
markedRow(rows, i, clock) ==
  [index |-> rows[i].index, Time |-> rows[i].Time,
   marker |-> IF rows[i].selected THEN "selected" ELSE "future",
   style |-> IF rows[i].selected THEN "TimelineSelectedStyle"
             ELSE getUrgencyColor(Wide(rows[i].Time), clock)]

markedRows(rows, clock) ==
  [i \in 1 .. Len(rows) |-> markedRow(rows, i, clock)]

\* the rows of renderTimeline with their markers, for the list whose
\* Index() is selectedIdx
timelineMarkers(items, selectedIdx, clock, h) ==
  markedRows(renderTimeline(timelineEvents(items, selectedIdx), clock, h).rows,
             clock)

\* renderTimeline: barWidth := m.timelineWidth - 25, kept in 10..40
barWidthOf(tw) == Min(40, Max(10, tw - 25))

\* days that count a day begun as a whole one
daysAwayBegun(diff) ==
  (diff.q + (IF diff.r > 0 THEN 1 ELSE 0) + (secondsPerDay \div 400) - 1)
    \div (secondsPerDay \div 400)

\* int(diff.Hours() / 24) of a duration that is not negative
daysAwayOf(diff) == diff.q \div (secondsPerDay \div 400)

\* int(diff.Hours()) of a duration that is not negative
hoursAwayOf(diff) == diff.q \div (secondsPerHour \div 400)

\* blocks that are the nearest whole number to n * barWidth / max
blocksRounded(n, max, barWidth) ==
  Min(barWidth, Max(1, (2 * n * barWidth + max) \div (2 * max)))

\* blocks := (n * barWidth) / max, with if blocks == 0 { blocks = 1 } and
\* if blocks > barWidth { blocks = barWidth }; the branches of 1..7 and of
\* 8..30 days have no such limit and need none, n being at most max
blocksOf(n, max, barWidth) == Min(barWidth, Max(1, (n * barWidth) \div max))

plural(text, n) == IF n > 1 THEN text \o "s" ELSE text

\* the bar and the label of one row of renderTimeline: the branch taken,
\* timeLabel, the count of filled blocks and the count of empty ones
timeBar(daysAway, hoursAway, barWidth) ==
  IF daysAway = 0
    THEN IF hoursAway = 0
      THEN [scale |-> "hours", label |-> "< 1 hour", blocks |-> 1,
            empty |-> barWidth - 1]
      ELSE [scale |-> "hours", label |-> NumStr(hoursAway) \o " hours",
            blocks |-> blocksOf(hoursAway, 24, barWidth),
            empty |-> barWidth - blocksOf(hoursAway, 24, barWidth)]
  ELSE IF daysAway <= 7
    THEN [scale |-> "week",
          label |-> plural(NumStr(daysAway) \o " day", daysAway),
          blocks |-> blocksOf(daysAway, 7, barWidth),
          empty |-> barWidth - blocksOf(daysAway, 7, barWidth)]
  ELSE IF daysAway <= 30
    THEN [scale |-> "month", label |-> NumStr(daysAway) \o " days",
          blocks |-> blocksOf(daysAway, 30, barWidth),
          empty |-> barWidth - blocksOf(daysAway, 30, barWidth)]
  ELSE IF daysAway <= 365
    THEN [scale |-> "year",
          label |-> plural("~" \o NumStr(daysAway \div 30) \o " month",
                           daysAway \div 30),
          blocks |-> blocksOf(daysAway, 365, barWidth),
          empty |-> barWidth - blocksOf(daysAway, 365, barWidth)]
  ELSE [scale |-> "years",
        label |-> plural("~" \o NumStr(daysAway \div 365) \o " year",
                         daysAway \div 365),
        blocks |-> barWidth, empty |-> 0]

\* the bar of an event that is after the clock, for a timeline tw wide
timeBarOf(ts, clock, tw) ==
  timeBar(daysAwayOf(Until(ts, clock)), hoursAwayOf(Until(ts, clock)),
          barWidthOf(tw))

(***************************************************************************)
(* NewMainModel and Init.                                                  *)
(***************************************************************************)
NoProbe == [fn |-> "none"]

\* NewMainModel on one of the store files in files, at one of the clocks
NewMainModelAt(exists, files, clocks) ==
  \E v \in {1, 2}, clock \in clocks, file \in files :
    /\ (~exists => file = <<>>)
    /\ variant = v
    /\ now = clock
    /\ status = "running"
    /\ events = readEventsFile(exists, file, clock)
    /\ store = events
    /\ state = IF Len(events) = 0 THEN "noEvents" ELSE "showEvents"
    /\ cursor = 0
    /\ filter = "off"
    /\ probe = NoProbe
    /\ focus = 0
    /\ nameInput = <<>>
    /\ dateInput = <<>>
    /\ inputStatus = ""
    /\ preview = NoPreview
    /\ editIndex = -1
    /\ window = <<120, 40>>
    /\ widths = minWidths(v)
    /\ onThisDay = [loading |-> v = 2, err |-> FALSE, events |-> <<>>]
    /\ fetchInFlight = (v = 2)
    /\ lastOp = "load"

\* NewMainModel on one of the store files in files
NewMainModelOn(exists, files) == NewMainModelAt(exists, files, NowPoints)

NewMainModel(exists) ==
  NewMainModelOn(exists, SeqsUpTo(LoadEvents, MaxLoad))

\* the program started on a store file that exists
Init == NewMainModel(TRUE)

\* the program started for the first time, with no store file
InitFirstRun == NewMainModel(FALSE)

(***************************************************************************)
(* Update, one action per message.                                         *)
(***************************************************************************)
InForm == state \in {"showInput", "showEdit"}

\* the text typed into the filter prompt that matches some names
FilterText == "b"

\* FilterValue() of the item holds the filter text
Matches(e) == \E j \in 1 .. Len(e.Name) : e.Name[j] = FilterText

\* the places in items of the items that match
RECURSIVE MatchesFrom(_, _)
MatchesFrom(items, i) ==
  IF i > Len(items) THEN <<>>
  ELSE IF Matches(items[i]) THEN <<i>> \o MatchesFrom(items, i + 1)
  ELSE MatchesFrom(items, i + 1)

\* the list is in list.Filtering
Filtering == filter \in {"typing", "none", "matching"}

\* m.events.VisibleItems(), as the places of the visible items in Items()
VisibleItems ==
  IF filter \in {"matching", "applied"} THEN MatchesFrom(events, 1)
  ELSE IF filter = "none" THEN <<>>
  ELSE [i \in 1 .. Len(events) |-> i]

\* m.events.SelectedItem() is an item, not nil
HasSelection == cursor < Len(VisibleItems)

\* m.events.SelectedItem(): the visible item at Index()
SelectedItem == events[VisibleItems[cursor + 1]]

\* View in showEvents: the plain program asserts SelectedItem() to be an
\* Event in detailsString, the historical-facts program returns the list
\* alone when SelectedItem() is nil
RenderFaults == variant = 1 /\ state = "showEvents" /\ ~HasSelection

\* the program is running and its last View returned
Alive == status = "running" /\ ~RenderFaults

\* View on a state it cannot render
View ==
  /\ status = "running"
  /\ RenderFaults
  /\ status' = "faulted"
  /\ UNCHANGED <<variant, probe, state, events, cursor, filter, form, window,
                 widths, store, now, onThisDay, fetchInFlight, lastOp>>

\* the list's Update in list.Filtering takes the rune of a key as filter text
FilterAfterKey == IF state = "showEvents" /\ Filtering THEN "none" ELSE filter

\* the tail of Update in the form states: updateInputs, the inputs' Update
\* and updateDatePreview, for the date text d at clock c
PreviewOf(d, c) == preview' = updateDatePreview(d, c)

\* tea.WindowSizeMsg
Resize(sz) ==
  /\ Alive
  /\ window' = sz
  /\ widths' = calculateWidths(variant, sz[1])
  /\ cursor' = IF state = "showEvents" THEN ClampCursor(cursor, Len(events))
               ELSE cursor
  /\ IF InForm THEN PreviewOf(dateInput, now)
     ELSE UNCHANGED preview
  /\ lastOp' = "none"
  /\ UNCHANGED <<variant, probe, filter, status, state, focus, events, nameInput, dateInput,
                 inputStatus, editIndex, store, now, onThisDay, fetchInFlight>>

\* timer.TickMsg, one second or more after the message before
Tick(clock) ==
  /\ Alive
  /\ clock >= now
  /\ now' = clock
  /\ cursor' = IF state = "showEvents" THEN ClampCursor(cursor, Len(events))
               ELSE cursor
  /\ IF InForm THEN PreviewOf(dateInput, clock)
     ELSE UNCHANGED preview
  /\ lastOp' = "none"
  /\ UNCHANGED <<variant, probe, filter, status, state, focus, events, nameInput, dateInput,
                 inputStatus, editIndex, window, widths, store, onThisDay,
                 fetchInFlight>>

\* a handler that stores the result and leaves the loading flag as it is
fetchedStillLoading(o, msg) ==
  IF msg.err THEN [o EXCEPT !.err = TRUE]
  ELSE [o EXCEPT !.events = msg.events]

\* case OnThisDayMsg: the loading flag is cleared, the error or the events
\* are stored
fetched(o, msg) ==
  IF msg.err THEN [o EXCEPT !.loading = FALSE, !.err = TRUE]
  ELSE [o EXCEPT !.loading = FALSE, !.events = msg.events]

\* OnThisDayMsg (historical-facts variant)
FetchDone(msg) ==
  /\ Alive
  /\ variant = 2
  /\ fetchInFlight
  /\ fetchInFlight' = FALSE
  /\ onThisDay' = fetched(onThisDay, msg)
  /\ cursor' = IF state = "showEvents" THEN ClampCursor(cursor, Len(events))
               ELSE cursor
  /\ IF InForm THEN PreviewOf(dateInput, now)
     ELSE UNCHANGED preview
  /\ lastOp' = "none"
  /\ UNCHANGED <<variant, probe, filter, status, state, focus, events, nameInput, dateInput,
                 inputStatus, editIndex, window, widths, store, now>>

\* a filter prompt that never keeps a key from Keymap
KeysNeverGated == FALSE

\* the historical-facts program hands a key to the list alone while the
\* filter prompt is open
\* a guard that keeps the keys from the historical-facts program whenever
\* it shows the list
KeysGatedBrowsing == variant = 2 /\ state = "showEvents"

KeysGated == variant = 2 /\ state = "showEvents" /\ Filtering

\* the key of Keymap.Quit in noEvents and showEvents: tea.Quit, or, with
\* the keys gated, one more rune of filter text
KeyQuit ==
  /\ Alive
  /\ state \in {"noEvents", "showEvents"}
  /\ IF KeysGated
       THEN /\ filter' = "none"
            /\ cursor' = 0
            /\ UNCHANGED status
       ELSE /\ status' = "quit"
            /\ UNCHANGED <<filter, cursor>>
  /\ lastOp' = "none"
  /\ UNCHANGED <<variant, probe, state, events, form, window, widths, store,
                 now, onThisDay, fetchInFlight>>

\* Keymap.Add in noEvents and showEvents
KeyAdd ==
  /\ Alive
  /\ state \in {"noEvents", "showEvents"}
  /\ ~KeysGated
  /\ Len(events) < MaxEvents
  /\ state' = "showInput"
  /\ cursor' = IF state = "showEvents" THEN ClampCursor(cursor, Len(events))
               ELSE cursor
  /\ filter' = FilterAfterKey
  /\ lastOp' = "none"
  /\ UNCHANGED <<variant, probe, status, events, form, window, widths, store, now,
                 onThisDay, fetchInFlight>>

\* Keymap.Edit in showEvents
KeyEdit ==
  /\ Alive
  /\ state = "showEvents"
  /\ ~KeysGated
  /\ Len(events) > 0
  /\ IF HasSelection
       THEN /\ editIndex' = cursor
            /\ nameInput' = TypeInto(<<>>, SelectedItem.Name, nameCharLimit)
            /\ dateInput' = TypeInto(<<>>, FormatLong(SelectedItem.Time),
                                     dateCharLimit)
            /\ PreviewOf(dateInput', now)
            /\ state' = "showEdit"
            /\ filter' = FilterAfterKey
            /\ UNCHANGED status
       ELSE /\ status' = "faulted"
            /\ UNCHANGED <<editIndex, nameInput, dateInput, preview, state,
                           filter>>
  /\ lastOp' = "none"
  /\ UNCHANGED <<variant, probe, events, cursor, focus, inputStatus, window,
                 widths, store, now, onThisDay, fetchInFlight>>

\* Keymap.Remove in showEvents
KeyRemove ==
  /\ Alive
  /\ state = "showEvents"
  /\ ~KeysGated
  /\ filter' = FilterAfterKey
  /\ IF variant = 2 /\ Len(events) = 0
       THEN UNCHANGED <<events, store, status, state, cursor>>
       ELSE \E ok \in BOOLEAN :
              /\ events' = RemoveItem(events, cursor)
              /\ saveEventsToFile(events', ok)
              /\ IF ok
                   THEN /\ state' = IF Len(events') = 0 THEN "noEvents"
                                    ELSE "showEvents"
                        /\ cursor' = ClampCursor(cursor, Len(events'))
                   ELSE UNCHANGED <<state, cursor>>
  /\ lastOp' = "remove"
  /\ UNCHANGED <<variant, probe, form, window, widths, now, onThisDay, fetchInFlight>>

\* the list widget's cursor keys in showEvents
KeyDown ==
  /\ Alive
  /\ state = "showEvents"
  /\ filter = "off"
  /\ cursor' = ClampCursor(cursor + 1, Len(events))
  /\ lastOp' = "none"
  /\ UNCHANGED <<variant, probe, filter, status, state, events, form, window, widths, store,
                 now, onThisDay, fetchInFlight>>

KeyUp ==
  /\ Alive
  /\ state = "showEvents"
  /\ filter = "off"
  /\ cursor' = ClampCursor(Max(0, cursor - 1), Len(events))
  /\ lastOp' = "none"
  /\ UNCHANGED <<variant, probe, filter, status, state, events, form, window, widths, store,
                 now, onThisDay, fetchInFlight>>

\* the list's filter key in showEvents: the prompt opens on the first row
KeyFilter ==
  /\ Alive
  /\ state = "showEvents"
  /\ filter = "off"
  /\ filter' = "typing"
  /\ cursor' = 0
  /\ lastOp' = "none"
  /\ UNCHANGED <<variant, probe, status, state, events, form, window, widths,
                 store, now, onThisDay, fetchInFlight>>

\* a rune typed in the filter prompt that no binding of Keymap matches
FilterRunes ==
  /\ Alive
  /\ state = "showEvents"
  /\ Filtering
  /\ filter' = "none"
  /\ cursor' = 0
  /\ lastOp' = "none"
  /\ UNCHANGED <<variant, probe, status, state, events, form, window, widths,
                 store, now, onThisDay, fetchInFlight>>

\* the rune of FilterText typed as the first of the filter prompt, and the
\* list's FilterMatchesMsg for it
FilterMatch ==
  /\ Alive
  /\ state = "showEvents"
  /\ filter = "typing"
  /\ filter' = IF Len(MatchesFrom(events, 1)) = 0 THEN "none" ELSE "matching"
  /\ cursor' = 0
  /\ lastOp' = "none"
  /\ UNCHANGED <<variant, probe, status, state, events, form, window, widths,
                 store, now, onThisDay, fetchInFlight>>

\* enter in the filter prompt (AcceptWhileFiltering): the filter is applied,
\* or, with no item visible, the list is unfiltered again
FilterAccept ==
  /\ Alive
  /\ state = "showEvents"
  /\ filter \in {"none", "matching"}
  /\ filter' = IF filter = "none" THEN "off" ELSE "applied"
  /\ cursor' = IF filter = "none" THEN ClampCursor(cursor, Len(events))
               ELSE cursor
  /\ lastOp' = "none"
  /\ UNCHANGED <<variant, probe, status, state, events, form, window, widths,
                 store, now, onThisDay, fetchInFlight>>

\* esc in the filter prompt: the list is unfiltered again
FilterCancel ==
  /\ Alive
  /\ state = "showEvents"
  /\ filter # "off"
  /\ filter' = "off"
  /\ cursor' = ClampCursor(cursor, Len(events))
  /\ lastOp' = "none"
  /\ UNCHANGED <<variant, probe, status, state, events, form, window, widths,
                 store, now, onThisDay, fetchInFlight>>

\* leaving the form without the check for an empty collection
LeaveFormToList ==
  /\ FormDefaults
  /\ state' = "showEvents"

\* leaving the form: resetInputs, then showEvents or noEvents
LeaveForm ==
  /\ FormDefaults
  /\ state' = IF Len(events) = 0 THEN "noEvents" ELSE "showEvents"

\* Keymap.Back in the form
KeyBack ==
  /\ Alive
  /\ InForm
  /\ LeaveForm
  /\ lastOp' = "cancel"
  /\ UNCHANGED <<variant, probe, filter, status, events, cursor, window, widths, store, now,
                 onThisDay, fetchInFlight>>

\* m.focus++ without its wrap
NextFocusNoWrap(f) == f + 1

\* m.focus++ with its wrap, m.focus-- with its wrap
NextFocus(f) == IF f + 1 > inputSubmitButton THEN inputNameField ELSE f + 1

PrevFocus(f) == IF f - 1 < inputNameField THEN inputSubmitButton ELSE f - 1

\* Keymap.Next in the form
KeyNext ==
  /\ Alive
  /\ InForm
  /\ focus' = NextFocus(focus)
  /\ PreviewOf(dateInput, now)
  /\ lastOp' = "none"
  /\ UNCHANGED <<variant, probe, filter, status, state, events, cursor, nameInput, dateInput,
                 inputStatus, editIndex, window, widths, store, now, onThisDay,
                 fetchInFlight>>

\* Keymap.Prev in the form
KeyPrev ==
  /\ Alive
  /\ InForm
  /\ focus' = PrevFocus(focus)
  /\ PreviewOf(dateInput, now)
  /\ lastOp' = "none"
  /\ UNCHANGED <<variant, probe, filter, status, state, events, cursor, nameInput, dateInput,
                 inputStatus, editIndex, window, widths, store, now, onThisDay,
                 fetchInFlight>>

\* an Enter on a field that validates the two texts as the submit button does
EnterFieldValidating ==
  /\ focus \in {inputNameField, inputTimeField}
  /\ focus' = focus + 1
  /\ PreviewOf(dateInput, now)
  /\ inputStatus' = IF validateInputs(nameInput, dateInput).err = ""
                      THEN inputStatus
                      ELSE "Error: " \o validateInputs(nameInput, dateInput).err
  /\ lastOp' = "none"
  /\ UNCHANGED <<status, state, events, cursor, nameInput, dateInput,
                 editIndex, store>>

\* Keymap.Enter on the name or the date field
EnterField ==
  /\ focus \in {inputNameField, inputTimeField}
  /\ focus' = focus + 1
  /\ PreviewOf(dateInput, now)
  /\ lastOp' = "none"
  /\ UNCHANGED <<status, state, events, cursor, nameInput, dateInput,
                 inputStatus, editIndex, store>>

\* a cancel button that leaves the form without resetInputs
EnterCancelKeepsText ==
  /\ focus = inputCancelButton
  /\ state' = IF Len(events) = 0 THEN "noEvents" ELSE "showEvents"
  /\ lastOp' = "cancel"
  /\ UNCHANGED <<status, events, cursor, store, form>>

\* Keymap.Enter on the cancel button
EnterCancel ==
  /\ focus = inputCancelButton
  /\ LeaveForm
  /\ lastOp' = "cancel"
  /\ UNCHANGED <<status, events, cursor, store>>

\* a failed submit that keeps the text of the fields
EnterSubmitInvalidKeepsText(v) ==
  /\ focus = inputSubmitButton
  /\ v.err # ""
  /\ focus' = 0
  /\ inputStatus' = "Error: " \o v.err
  /\ PreviewOf(dateInput, now)
  /\ lastOp' = "reject"
  /\ UNCHANGED <<status, state, events, cursor, editIndex, store, nameInput,
                 dateInput>>

\* Keymap.Enter on the submit button, validateInputs returning the error v.err
EnterSubmitInvalid(v) ==
  /\ focus = inputSubmitButton
  /\ v.err # ""
  /\ nameInput' = <<>>
  /\ dateInput' = <<>>
  /\ focus' = 0
  /\ inputStatus' = "Error: " \o v.err
  /\ preview' = NoPreview
  /\ lastOp' = "reject"
  /\ UNCHANGED <<status, state, events, cursor, editIndex, store>>

\* Keymap.Enter on the submit button, validateInputs returning the event v.event
EnterSubmitValid(v) ==
  /\ focus = inputSubmitButton
  /\ v.err = ""
  /\ \E ok \in BOOLEAN :
       /\ events' = SubmitItems(events, state, editIndex, v.event)
       /\ saveEventsToFile(events', ok)
       /\ IF ok
            THEN /\ cursor' = ClampCursor(cursor, Len(events'))
                 /\ FormDefaults
                 /\ state' = "showEvents"
            ELSE UNCHANGED <<cursor, form, state>>
  /\ lastOp' = "submit"

EnterSubmit(v) == EnterSubmitInvalid(v) \/ EnterSubmitValid(v)

KeyEnter ==
  /\ Alive
  /\ InForm
  /\ \/ EnterField
     \/ EnterCancel
     \/ EnterSubmit(validateInputs(nameInput, dateInput))
  /\ UNCHANGED <<variant, probe, filter, window, widths, now, onThisDay, fetchInFlight>>

\* text typed or pasted in the form: it goes to the focused field, if any
KeyRunes(runes) ==
  /\ Alive
  /\ InForm
  /\ nameInput' = IF focus = inputNameField
                    THEN TypeInto(nameInput, runes, nameCharLimit)
                    ELSE nameInput
  /\ dateInput' = IF focus = inputTimeField
                    THEN TypeInto(dateInput, runes, dateCharLimit)
                    ELSE dateInput
  /\ focus = inputNameField => runes \in NameChunks /\ nameInput' \in NameTexts
  /\ focus = inputTimeField => runes \in DateChunks /\ dateInput' \in DateTexts
  /\ PreviewOf(dateInput', now)
  /\ lastOp' = "none"
  /\ UNCHANGED <<variant, probe, filter, status, state, focus, events, cursor, inputStatus,
                 editIndex, window, widths, store, now, onThisDay,
                 fetchInFlight>>

\* ctrl+u in the form: the focused field loses the text before its cursor
KeyClear ==
  /\ Alive
  /\ InForm
  /\ focus \in {inputNameField, inputTimeField}
  /\ nameInput' = IF focus = inputNameField THEN <<>> ELSE nameInput
  /\ dateInput' = IF focus = inputTimeField THEN <<>> ELSE dateInput
  /\ PreviewOf(dateInput', now)
  /\ lastOp' = "none"
  /\ UNCHANGED <<variant, probe, filter, status, state, focus, events, cursor, inputStatus,
                 editIndex, window, widths, store, now, onThisDay,
                 fetchInFlight>>

Next ==
  \/ \E sz \in Sizes : Resize(sz)
  \/ \E clock \in NowPoints : Tick(clock)
  \/ \E msg \in FetchResults : FetchDone(msg)
  \/ KeyQuit
  \/ KeyAdd
  \/ KeyEdit
  \/ KeyRemove
  \/ KeyDown
  \/ KeyUp
  \/ KeyFilter
  \/ FilterRunes
  \/ FilterCancel
  \/ View
  \/ KeyBack
  \/ KeyNext
  \/ KeyPrev
  \/ KeyEnter
  \/ \E runes \in NameChunks \cup DateChunks : KeyRunes(runes)
  \/ KeyClear

Spec == Init /\ [][Next]_vars

\* the completion message of the fetch is handled
FetchDelivered == \E msg \in FetchResults : FetchDone(msg)

\* the step that takes the completion message out of flight; within Next
\* these are the steps of FetchDelivered
FetchArrival ==
  /\ Alive
  /\ variant = 2
  /\ fetchInFlight
  /\ fetchInFlight' = FALSE

\* the fetch's HTTP client gives up after ten seconds, so the command
\* returns its message, and the runtime hands it to Update while the
\* program runs
SpecFair == Spec /\ WF_fetchInFlight(FetchArrival)

\* store files one event longer than MaxLoad that are not sorted: the
\* first event is later than the last
LongLoads ==
  {[i \in 1 .. MaxLoad + 1 |-> [Name |-> <<"b">>, Time |-> f[i]]] :
     f \in {g \in [1 .. MaxLoad + 1 -> LoadTimes] : g[1] > g[MaxLoad + 1]}}

\* the program started on one of the longer store files
InitLong == NewMainModelOn(TRUE, LongLoads)

\* the key messages alone: no resize, no tick, no fetch result
NextKeys ==
  \/ KeyQuit
  \/ KeyAdd
  \/ KeyEdit
  \/ KeyRemove
  \/ KeyDown
  \/ KeyUp
  \/ KeyBack
  \/ KeyNext
  \/ KeyPrev
  \/ KeyEnter
  \/ \E runes \in NameChunks \cup DateChunks : KeyRunes(runes)
  \/ KeyClear

SpecLong == InitLong /\ [][NextKeys]_vars

SpecFirstRun == InitFirstRun /\ [][Next]_vars

(***************************************************************************)
(* The keys of Keymap.Add, Remove, Edit and Quit pressed in every state:   *)
(* the key switch of the state decides what they do.                       *)
(***************************************************************************)
GateKeys == {"+", "-", "e", "q"}

\* a key switch of noEvents that takes every key for Keymap.Add
boundAnyKeyAdds(st, k) ==
  IF st = "noEvents" THEN "Add"
  ELSE IF st = "showEvents"
    THEN (IF k = "+" THEN "Add" ELSE IF k = "-" THEN "Remove"
          ELSE IF k = "e" THEN "Edit" ELSE "Quit")
  ELSE "none"

\* the case of the key switch of state st that key.Matches chooses for k:
\* Add and Quit in noEvents, Quit, Add, Edit and Remove in showEvents, none
\* of the four in showInput and showEdit
bound(st, k) ==
  IF st = "noEvents"
    THEN (IF k = "+" THEN "Add" ELSE IF k = "q" THEN "Quit" ELSE "none")
  ELSE IF st = "showEvents"
    THEN (IF k = "+" THEN "Add" ELSE IF k = "-" THEN "Remove"
          ELSE IF k = "e" THEN "Edit" ELSE "Quit")
  ELSE "none"

\* a key message that no case of the key switch of noEvents matches
KeyIgnored ==
  /\ Alive
  /\ state = "noEvents"
  /\ lastOp' = "none"
  /\ UNCHANGED <<variant, probe, filter, status, state, events, cursor, form,
                 window, widths, store, now, onThisDay, fetchInFlight>>

HasGateRune(text) == \E i \in 1 .. Len(text) : text[i] \in GateKeys

\* a key message that no case of the key switch of the form matches: the
\* inputs are updated with it, and the focused one takes the rune; a field
\* takes one such rune at most
KeyTyped(k) ==
  /\ Alive
  /\ InForm
  /\ focus = inputNameField => ~HasGateRune(nameInput)
  /\ focus = inputTimeField => ~HasGateRune(dateInput)
  /\ nameInput' = IF focus = inputNameField
                    THEN TypeInto(nameInput, <<k>>, nameCharLimit)
                    ELSE nameInput
  /\ dateInput' = IF focus = inputTimeField
                    THEN TypeInto(dateInput, <<k>>, dateCharLimit)
                    ELSE dateInput
  /\ PreviewOf(dateInput', now)
  /\ lastOp' = "none"
  /\ UNCHANGED <<variant, probe, filter, status, state, focus, events, cursor,
                 inputStatus, editIndex, window, widths, store, now, onThisDay,
                 fetchInFlight>>

\* Update on the key message of k; NextGate has these keys and those that
\* move within the list and the form, and leaves the Enter key to Next
Press(k) ==
  \/ bound(state, k) = "Add" /\ KeyAdd
  \/ bound(state, k) = "Quit" /\ KeyQuit
  \/ bound(state, k) = "Edit" /\ KeyEdit
  \/ bound(state, k) = "Remove" /\ KeyRemove
  \/ bound(state, k) = "none" /\ (KeyIgnored \/ KeyTyped(k))

NextGate ==
  \/ \E k \in GateKeys : Press(k)
  \/ KeyDown
  \/ KeyUp
  \/ KeyBack
  \/ KeyNext
  \/ KeyPrev
  \/ \E runes \in NameChunks \cup DateChunks : KeyRunes(runes)
  \/ KeyClear

SpecGate == Init /\ [][NextGate]_vars

\* clocks of a first start around the anniversary: the second before it, its
\* very instant, the second after, the ends of the year, and the same
\* around a leap day
SeedClocks ==
  {UnixOf(2025, 1, 1, 0, 0, 0), UnixOf(2025, 11, 9, 23, 59, 59),
   UnixOf(2025, 11, 10, 0, 0, 0), UnixOf(2025, 11, 10, 0, 0, 1),
   UnixOf(2025, 12, 31, 23, 59, 59), UnixOf(2027, 11, 10, 0, 0, 0),
   UnixOf(2028, 2, 29, 12, 0, 0), UnixOf(2028, 11, 9, 23, 59, 59)}

\* the program started for the first time at one of these clocks
InitSeed == NewMainModelAt(FALSE, {<<>>}, SeedClocks)

\* the messages that do not open the form
NextSeed ==
  \/ \E sz \in Sizes : Resize(sz)
  \/ \E msg \in FetchResults : FetchDone(msg)
  \/ KeyQuit
  \/ KeyRemove
  \/ KeyFilter
  \/ FilterRunes
  \/ FilterCancel
  \/ View

SpecSeed == InitSeed /\ [][NextSeed]_vars

\* the messages of a list that is filtered and of a form that is entered
\* from it
NextFilter ==
  \/ \E sz \in Sizes : Resize(sz)
  \/ \E clock \in NowPoints : Tick(clock)
  \/ \E msg \in FetchResults : FetchDone(msg)
  \/ KeyQuit
  \/ KeyFilter
  \/ FilterRunes
  \/ FilterMatch
  \/ FilterAccept
  \/ FilterCancel
  \/ KeyEdit
  \/ KeyDown
  \/ KeyUp
  \/ View
  \/ KeyNext
  \/ KeyPrev
  \/ \E runes \in NameChunks \cup DateChunks : KeyRunes(runes)
  \/ KeyClear

SpecFilter == Init /\ [][NextFilter]_vars

(***************************************************************************)
(* The display functions applied to chosen arguments.                      *)
(***************************************************************************)
\* the most future events in a list handed to renderTimeline
MaxFuture == 10

\* the later clock of NowPoints, which the arguments are laid around
DisplayBase == UnixOf(2025, 12, 31, 12, 0, 0)

\* distances from DisplayBase, at and next to every limit of the functions
DisplayDeltas ==
  {-secondsPerYear - 1, -secondsPerDay, -1, 0, 1,
   secondsPerHour - 1, secondsPerHour,
   secondsPerDay - 1, secondsPerDay, secondsPerDay + 1,
   3 * secondsPerDay - 1, 3 * secondsPerDay,
   7 * secondsPerDay - 1, 7 * secondsPerDay,
   14 * secondsPerDay - 1, 14 * secondsPerDay,
   30 * secondsPerDay - 1, 30 * secondsPerDay,
   secondsPerYear - 1, secondsPerYear, secondsPerYear + 90061}

\* event times: near the clock, and dates the date field accepts that lie
\* centuries away
DisplayTimes ==
  {Wide(DisplayBase + d) : d \in DisplayDeltas}
    \cup {WideUnixOf(2300, 1, 1, 0, 0, 0), WideUnixOf(2400, 1, 1, 0, 0, 0),
          WideUnixOf(9999, 12, 31, 23, 59, 59), WideUnixOf(1, 1, 1, 0, 0, 0)}

DisplayHeights == {10, 15, 30, 34, 35, 40, 54, 55, 60, 100}

\* k events an hour apart after DisplayBase, behind p events that are not
\* after it: two days before, one day before, and at DisplayBase itself
TimelineAscending(k, p) ==
  [i \in 1 .. p + k |->
     [Name |-> <<"b">>,
      Time |-> IF i <= p THEN DisplayBase - (3 - i) * secondsPerDay
               ELSE DisplayBase + (i - p) * secondsPerHour]]

Reverse(items) == [i \in 1 .. Len(items) |-> items[Len(items) + 1 - i]]

TimelineLists ==
  {TimelineAscending(k, p) : k \in 0 .. MaxFuture, p \in 0 .. 3}
    \cup {Reverse(TimelineAscending(k, p)) : k \in 0 .. MaxFuture, p \in 0 .. 3}

\* every variable of the program
program == <<variant, status, state, focus, events, cursor, nameInput,
             dateInput, inputStatus, preview, editIndex, window, widths,
             store, now, onThisDay, fetchInFlight, lastOp, filter>>

\* date texts for validateInputs and updateDatePreview: "2025-12-31  1:30:00"
\* (two spaces, one digit of hour, 19 characters), "2025-12-31 1:30:00" (18
\* characters), "2025-12-31 00:00:00", "2025-12-31 24:00:00", "2025-02-31"
\* and "2024-02-29"
TextLoose == TextD \o <<" "," ","1",":","3","0",":","0","0">>
TextShortHour == TextD \o <<" ","1",":","3","0",":","0","0">>
TextMidnight == TextD \o <<" ","0","0",":","0","0",":","0","0">>
TextHour24 == TextD \o <<" ","2","4",":","0","0",":","0","0">>
TextFeb31 == <<"2","0","2","5","-","0","2","-","3","1">>
TextLeapDay == <<"2","0","2","4","-","0","2","-","2","9">>

ProbeTexts ==
  {<<>>, TextD, TextD \o TextT, TextX, TextLoose, TextShortHour, TextMidnight,
   TextHour24, TextFeb31, TextLeapDay}

ProbeNames == {<<>>, <<"a">>}

ShowValidate(name, text) ==
  /\ Alive
  /\ Len(name) <= nameCharLimit
  /\ Len(text) <= dateCharLimit
  /\ probe' = [fn |-> "validateInputs", name |-> name, text |-> text,
               out |-> validateInputs(name, text),
               preview |-> updateDatePreview(text, now)]
  /\ UNCHANGED program

\* the events of the store files handed to Unmarshal
FileEvents ==
  {[Name |-> <<"a">>, Time |-> UnixOf(2025, 12, 31, 0, 0, 0)],
   [Name |-> <<"<","b",">">>, Time |-> UnixOf(2025, 12, 31, 18, 30, 0)]}

FileEventLists == SeqsUpTo(FileEvents, 2)

\* one event the way MarshalIndent lays it out, written out token by token
FileLiteral ==
  <<Punct("["),
    Space(<<"\n"," "," ">>), Punct("{"),
    Space(<<"\n"," "," "," "," ">>), Str(<<"n","a","m","e">>), Punct(":"),
    Space(<<" ">>), Str(<<"\\u003c","b","\\u003e">>), Punct(","),
    Space(<<"\n"," "," "," "," ">>), Str(<<"t","s">>), Punct(":"),
    Space(<<" ">>), Num(UnixOf(2025, 12, 31, 18, 30, 0)),
    Space(<<"\n"," "," ">>), Punct("}"),
    Space(<<"\n">>), Punct("]")>>

\* the same event with < and > written as they are
FileRawAngles ==
  [FileLiteral EXCEPT ![8] = Str(<<"<","b",">">>)]

\* the same event with "ts" before "name"
FileSwapped ==
  [FileLiteral EXCEPT ![5] = FileLiteral[11], ![8] = FileLiteral[14],
                      ![11] = FileLiteral[5], ![14] = FileLiteral[8]]

\* the same event with one more member, "note": "x"
FileExtraMember ==
  SubSeq(FileLiteral, 1, 14)
    \o <<Punct(","), Space(<<"\n"," "," "," "," ">>), Str(<<"n","o","t","e">>),
         Punct(":"), Space(<<" ">>), Str(<<"x">>)>>
    \o SubSeq(FileLiteral, 15, 18)

\* the same file cut off before its closing bracket
FileTruncated == SubSeq(FileLiteral, 1, 16)

\* the files json.MarshalIndent writes, the same without white space, and
\* the hand-written ones
StoreFiles ==
  {MarshalIndent(items) : items \in FileEventLists}
    \cup {SelectSeq(MarshalIndent(items), IsToken) : items \in FileEventLists}
    \cup {FileLiteral, FileRawAngles, FileSwapped, FileExtraMember,
          FileTruncated}

\* saveEventsToFile's bytes for what readEventsFile loaded from the file
SavedAfterLoad(loaded) ==
  IF loaded.ok THEN MarshalIndent(loaded.events) ELSE <<>>

ShowSaveAfterLoad(file) ==
  /\ Alive
  /\ probe' = [fn |-> "saveAfterLoad", file |-> file,
               ok |-> Unmarshal(file).ok,
               out |-> SavedAfterLoad(Unmarshal(file))]
  /\ UNCHANGED program

ShowUrgency(ts) ==
  /\ Alive
  /\ probe' = [fn |-> "getUrgencyColor", ts |-> ts,
               color |-> getUrgencyColor(ts, now)]
  /\ UNCHANGED program

ShowCountdown(ts) ==
  /\ Alive
  /\ probe' = [fn |-> "countdownParser", ts |-> ts,
               out |-> countdownParser(ts, now)]
  /\ UNCHANGED program

\* the compact countdown of an event, in the row of the list (Description,
\* by countdownParser) and in the details pane (detailsString), at the
\* clock or a part of a second after it
ShowCompact(ts, part) ==
  /\ Alive
  /\ probe' = [fn |-> "compactString", ts |-> ts, part |-> part,
               row |-> countdownParserAt(ts, now, part),
               rowText |-> compactString(countdownParserAt(ts, now, part)),
               details |-> detailsCountdown(ts, now, part),
               detailsText |-> compactString(detailsCountdown(ts, now, part))]
  /\ UNCHANGED program

\* widths of the details pane, from its minimum on
DetailWidths == {35, 41, 50, 77}

\* the day progress of detailsString for an event, in a pane dw wide
ShowDayProgress(ts, dw) ==
  /\ Alive
  /\ probe' = [fn |-> "dayProgress", ts |-> ts, width |-> progressWidthOf(dw),
               units |-> detailsCountdown(ts, now, FALSE).units,
               bar |-> renderProgressBar(
                         daySecondsOf(detailsCountdown(ts, now, FALSE).units),
                         progressWidthOf(dw))]
  /\ UNCHANGED program

\* event times at and next to every limit of the bars of the timeline
BarDeltas ==
  {1, secondsPerHour - 1, secondsPerHour, 13 * secondsPerHour,
   secondsPerDay - 1, secondsPerDay, 2 * secondsPerDay,
   6 * secondsPerDay - 1, 8 * secondsPerDay - 1, 8 * secondsPerDay,
   20 * secondsPerDay, 31 * secondsPerDay - 1, 31 * secondsPerDay,
   200 * secondsPerDay, 366 * secondsPerDay - 1, 366 * secondsPerDay,
   800 * secondsPerDay}

BarTimes ==
  {Wide(DisplayBase + d) : d \in BarDeltas}
    \cup {WideUnixOf(2300, 1, 1, 0, 0, 0), WideUnixOf(2400, 1, 1, 0, 0, 0)}

\* widths of the timeline pane, from its minimum on
TimelineWidths == {45, 46, 52, 64, 65, 66, 116}

\* one row of renderTimeline, for an event that is after the clock
ShowBar(ts, tw) ==
  /\ Alive
  /\ variant = 1
  /\ WideLess(Wide(now), ts)
  /\ probe' = [fn |-> "timeBar", ts |-> ts, width |-> tw,
               out |-> timeBarOf(ts, now, tw)]
  /\ UNCHANGED program

ShowTimeline(items, h) ==
  /\ Alive
  /\ variant = 1
  /\ probe' = [fn |-> "renderTimeline", items |-> items, height |-> h,
               out |-> renderTimeline(items, now, h)]
  /\ UNCHANGED program

NextDisplay ==
  \/ \E ts \in DisplayTimes : ShowUrgency(ts)
  \/ \E ts \in DisplayTimes : ShowCountdown(ts)
  \/ \E items \in TimelineLists, h \in DisplayHeights : ShowTimeline(items, h)
  \/ \E ts \in DisplayTimes, part \in BOOLEAN : ShowCompact(ts, part)
  \/ \E ts \in DisplayTimes, dw \in DetailWidths : ShowDayProgress(ts, dw)
  \/ \E ts \in BarTimes, tw \in TimelineWidths : ShowBar(ts, tw)
  \/ \E name \in ProbeNames, text \in ProbeTexts : ShowValidate(name, text)
  \/ \E file \in StoreFiles : ShowSaveAfterLoad(file)

\* the program started on an empty store file
InitDisplay == NewMainModelOn(TRUE, {<<>>})

SpecDisplay == InitDisplay /\ [][NextDisplay]_vars

(***************************************************************************)
(* The program started on the bytes of a store file that exists, which     *)
(* os.ReadFile may fail to read and json.Unmarshal may fail to decode.     *)
(***************************************************************************)
\* readEventsFile on a store file that exists: [ok, events]
readStore(readable, file) ==
  IF readable THEN Unmarshal(file) ELSE [ok |-> FALSE, events |-> <<>>]

\* NewMainModel: panic(err) when readEventsFile returns an error, the model
\* of a program with the loaded events otherwise; probe keeps what the load
\* was given
NewMainModelLoading(readable, file, loaded) ==
  \E v \in {1, 2}, clock \in NowPoints :
    /\ variant = v
    /\ now = clock
    /\ status = IF loaded.ok THEN "running" ELSE "panicked"
    /\ events = IF loaded.ok THEN loaded.events ELSE <<>>
    /\ store = events
    /\ state = IF Len(events) = 0 THEN "noEvents" ELSE "showEvents"
    /\ cursor = 0
    /\ filter = "off"
    /\ probe = [fn |-> "readEventsFile", readable |-> readable, file |-> file]
    /\ focus = 0
    /\ nameInput = <<>>
    /\ dateInput = <<>>
    /\ inputStatus = ""
    /\ preview = NoPreview
    /\ editIndex = -1
    /\ window = <<120, 40>>
    /\ widths = minWidths(v)
    /\ onThisDay = [loading |-> v = 2, err |-> FALSE, events |-> <<>>]
    /\ fetchInFlight = (v = 2)
    /\ lastOp = "load"

\* the store files of a start: an empty store and a store of one event as
\* the program writes them, a hand-written store, and one cut off
StartFiles ==
  {MarshalIndent(<<>>),
   MarshalIndent(<<[Name |-> <<"a">>, Time |-> UnixOf(2025, 12, 31, 0, 0, 0)]>>),
   FileExtraMember, FileTruncated}

InitFaults ==
  \E readable \in BOOLEAN, file \in StartFiles :
    NewMainModelLoading(readable, file, readStore(readable, file))

SpecFaults == InitFaults /\ [][Next]_vars

(***************************************************************************)
(* Properties.                                                             *)
(***************************************************************************)
Sorted(items) ==
  \A i \in 1 .. Len(items) - 1 : items[i].Time <= items[i + 1].Time

\* items with the element at 0-based position index left out
WithoutIndex(items, index) ==
  SubSeq(items, 1, index) \o SubSeq(items, index + 2, Len(items))

Count(x, items) == Cardinality({i \in 1 .. Len(items) : items[i] = x})

Range(items) == {items[i] : i \in 1 .. Len(items)}

\* the date text names the instant ts, in the full or in the date-only layout
DenotesInstant(text, ts) ==
  \/ text = FormatLong(ts)
  \/ text \o <<" ","0","0",":","0","0",":","0","0">> = FormatLong(ts)

\* the instants of the events the model loads, seeds or lets the user type
KnownInstants ==
  LoadTimes \cup {nextGolangAnniversary(clock).Time : clock \in NowPoints}

WellFormedDate(text) == \E ts \in KnownInstants : DenotesInstant(text, ts)

\* the step is Enter on the submit button
SubmitStep == KeyEnter /\ focus = inputSubmitButton

\* the collection a submit inserts into: the edit target is gone first
SubmitRest ==
  IF state = "showEdit" THEN WithoutIndex(events, editIndex) ELSE events

\* x is the event the fields of the form describe
IsTyped(x) == x.Name = nameInput /\ DenotesInstant(dateInput, x.Time)

\* C1: every step (submit, remove, any key, tick, resize) from a collection
\* sorted ascending by time leaves the collection sorted ascending by time.
C1_SortedPreserved == [][Sorted(events) => Sorted(events')]_vars

C1_Witness ==
  /\ lastOp = "submit" /\ status = "running"
  /\ Len(events) = 2 /\ events[1].Time < events[2].Time

C3_StoreIsCollection == status # "panicked" => store = events

C3_Witness ==
  /\ lastOp = "remove" /\ status = "running"
  /\ Len(store) = 1 /\ store = events

\* C4: Enter on the submit button with an empty name or an empty date is
\* rejected with the error of the first empty field, and leaves the
\* collection, the store and the mode as they were.
C4_EmptyRejected ==
  [][(SubmitStep /\ (nameInput = <<>> \/ dateInput = <<>>)) =>
       /\ lastOp' = "reject"
       /\ inputStatus' = (IF nameInput = <<>>
                            THEN "Error: event name is required"
                            ELSE "Error: date/time is required")
       /\ events' = events
       /\ store' = store
       /\ state' = state]_vars

C4_Witness ==
  /\ lastOp = "reject" /\ state = "showEdit"
  /\ inputStatus = "Error: date/time is required"
  /\ store = events

\* C5: Enter on the submit button with an empty name, an empty date or a
\* date text that names no instant clears both fields, puts the focus on
\* the name field, sets an error, and keeps the mode, the edit target, the
\* collection and the store.
C5_RejectResetsForm ==
  [][(SubmitStep /\ (nameInput = <<>> \/ dateInput = <<>>
                       \/ ~WellFormedDate(dateInput))) =>
       /\ nameInput' = <<>>
       /\ dateInput' = <<>>
       /\ focus' = inputNameField
       /\ inputStatus' # ""
       /\ state' = state
       /\ editIndex' = editIndex
       /\ events' = events
       /\ store' = store
       /\ status' = status]_vars

C5_Witness ==
  /\ lastOp = "reject" /\ state = "showEdit" /\ editIndex = 1
  /\ inputStatus = "Error: invalid date format"
  /\ nameInput = <<>> /\ dateInput = <<>> /\ focus = inputNameField

\* C6: a successful submit leaves Browse with the store written and the
\* form cleared; in EditForm the collection keeps its length and is the
\* old one with the edit target replaced by the event of the form, in
\* AddForm it is the old one plus the event of the form.
C6_SubmitEffect ==
  [][(SubmitStep /\ lastOp' = "submit" /\ status' = "running") =>
       /\ state' = "showEvents"
       /\ store' = events'
       /\ nameInput' = <<>> /\ dateInput' = <<>>
       /\ inputStatus' = "" /\ preview' = NoPreview
       /\ state = "showEdit" =>
            /\ editIndex >= 0 /\ editIndex < Len(events)
            /\ Len(events') = Len(events)
       /\ state = "showInput" => Len(events') = Len(events) + 1
       /\ \A x \in Range(events) \cup Range(events') :
            Count(x, events') =
              Count(x, SubmitRest) + (IF IsTyped(x) THEN 1 ELSE 0)]_vars

C6_Witness ==
  /\ lastOp = "submit" /\ status = "running" /\ state = "showEvents"
  /\ Len(events) = 2
  /\ \A i \in 1 .. 2 : events[i].Name = <<"b">>
  /\ store = events /\ nameInput = <<>>

\* C7: the remove key in Browse deletes the event at the selected index
\* and no other, writes the store, and leaves the mode Empty exactly when
\* the collection has become empty.
C7_RemoveEffect ==
  [][(KeyRemove /\ status' = "running") =>
       /\ cursor < Len(events)
       /\ events' = WithoutIndex(events, cursor)
       /\ store' = events'
       /\ state' = (IF Len(events') = 0 THEN "noEvents" ELSE "showEvents")]_vars

C7_Witness ==
  /\ lastOp = "remove" /\ status = "running"
  /\ state = "noEvents" /\ events = <<>> /\ store = <<>>

\* C8: Esc in a form, and Enter on the cancel button, both lead to the one
\* state with the form at its defaults, the collection, the store and the
\* cursor unchanged, and the mode Browse or, with no events, Empty.
C8_CancelEffect ==
  [][(KeyBack \/ (KeyEnter /\ focus = inputCancelButton)) =>
       /\ nameInput' = <<>> /\ dateInput' = <<>>
       /\ focus' = inputNameField /\ inputStatus' = ""
       /\ preview' = NoPreview /\ editIndex' = -1
       /\ state' = (IF Len(events) = 0 THEN "noEvents" ELSE "showEvents")
       /\ lastOp' = "cancel"
       /\ UNCHANGED <<variant, status, events, cursor, window, widths, store,
                      now, onThisDay, fetchInFlight>>]_vars

C8_Witness ==
  /\ lastOp = "cancel" /\ state = "showEvents"
  /\ Len(events) = 1 /\ store = events
  /\ nameInput = <<>> /\ dateInput = <<>>

\* C9: the mode is Empty only with an empty collection and Browse only
\* with a non-empty one, from the load on.
C9_ModeMatchesCollection ==
  status # "panicked" =>
    /\ state = "noEvents" => Len(events) = 0
    /\ state = "showEvents" => Len(events) > 0
    /\ lastOp = "load" =>
         state = (IF Len(events) = 0 THEN "noEvents" ELSE "showEvents")

C9_Witness ==
  /\ lastOp = "cancel" /\ status = "running"
  /\ state = "noEvents" /\ Len(events) = 0

\* C10: the focus is always one of the four targets 0..3; Tab moves it one
\* target on, from 3 to 0, Shift+Tab one target back, from 0 to 3, and
\* Shift+Tab undoes Tab.
C10_FocusCycle ==
  /\ [](focus \in 0 .. 3 /\ PrevFocus(NextFocus(focus)) = focus)
  /\ [][/\ KeyNext => focus' = (focus + 1) % 4
        /\ KeyPrev => focus' = (focus + 3) % 4]_vars

C10_Witness ==
  /\ state = "showInput" /\ focus = inputSubmitButton
  /\ nameInput = <<>> /\ dateInput = <<>> /\ lastOp = "none"

\* C11: in Browse and in Empty the form is at its defaults: both fields
\* empty, focus on the name field, no error, no preview and the preview
\* invalid, no edit target; so the add key opens AddForm with cleared
\* fields and the focus on the name field.
C11_DefaultsOutsideForm ==
  /\ [](state \in {"showEvents", "noEvents"} =>
          /\ nameInput = <<>> /\ dateInput = <<>>
          /\ focus = inputNameField
          /\ inputStatus = ""
          /\ preview.datePreview = "" /\ ~preview.dateValid
          /\ editIndex = -1)
  /\ [][KeyAdd =>
          /\ state' = "showInput"
          /\ nameInput' = <<>> /\ dateInput' = <<>>
          /\ focus' = inputNameField]_vars

C11_Witness ==
  /\ lastOp = "submit" /\ status = "running" /\ state = "showEvents"
  /\ Len(events) = 1 /\ focus = inputNameField /\ editIndex = -1
  /\ preview = NoPreview

AllNamed(items) == \A i \in 1 .. Len(items) : items[i].Name # <<>>

\* C12: no step gives the collection an event with an empty name, so from
\* a load whose names are non-empty every event has a non-empty name; and
\* a submit with a name and a well-formed date is accepted whether the
\* date is before or after now.
C12_NamesNonEmpty ==
  /\ [][AllNamed(events) => AllNamed(events')]_vars
  /\ [](AllNamed(events))
  /\ [][(SubmitStep /\ nameInput # <<>> /\ WellFormedDate(dateInput)) =>
          /\ lastOp' = "submit"
          /\ \E i \in 1 .. Len(events') : IsTyped(events'[i])]_vars

C12_Witness ==
  /\ lastOp = "submit" /\ status = "running"
  /\ Len(events) = 1 /\ events[1].Name = <<"a">> /\ events[1].Time < now

\* the date text of the form names an instant before the time of the
\* event just before the edit target
TypedBeforePredecessor ==
  \E ts \in KnownInstants :
    DenotesInstant(dateInput, ts) /\ ts < events[editIndex].Time

\* the step is a successful edit submit of a target that is not the first
\* event, to a time before the time of the event just before it
EditToEarlier ==
  /\ SubmitStep /\ state = "showEdit"
  /\ lastOp' = "submit" /\ status' = "running"
  /\ editIndex > 0 /\ editIndex < Len(events)
  /\ TypedBeforePredecessor

\* the updated event stands at a position before the old one
MovedEarlier ==
  \E k \in 0 .. editIndex - 1 :
    IsTyped(events'[k + 1]) /\ WithoutIndex(events', k) = SubmitRest

\* C13: an edit of the event at index i > 0 to a time strictly before the
\* time of the event at index i-1 leaves the updated event at an index
\* strictly less than i.
C13_EditMovesEarlier == [][EditToEarlier => MovedEarlier]_vars

\* the same for an edit in a collection that is sorted
C13_EditMovesEarlierWhenSorted ==
  [][(Sorted(events) /\ EditToEarlier) => MovedEarlier]_vars

\* C14: the collection and the persisted array are sorted ascending by
\* time in every reachable state, the state after the load included.
C14_AlwaysSorted == Sorted(events) /\ Sorted(store)

C15_InRangeWhenUnfiltered ==
  /\ (status # "panicked" /\ state = "showEvents" /\ filter = "off") =>
       cursor < Len(events)
  /\ status = "faulted" => (variant = 1 /\ filter = "none")

\* C16 as stated: in Browse and in Empty the quit key ends the process at
\* once, and changes neither the collection nor the store.
C16_QuitAtOnce ==
  [][KeyQuit => (status' = "quit" /\ events' = events /\ store' = store)]_vars

\* C16, amended: in Browse and in Empty the quit key is always accepted and
\* changes neither the collection, the store nor the mode; it ends the
\* process at once, except in the historical-facts variant with the
\* list's filter prompt open, where the process keeps running; esc closes
\* the prompt, after which the key quits.
C16_QuitUnlessFiltering ==
  /\ []((Alive /\ state \in {"showEvents", "noEvents"}) => ENABLED KeyQuit)
  /\ [][KeyQuit =>
          /\ status' = (IF variant = 2 /\ state = "showEvents" /\ filter # "off"
                          THEN "running" ELSE "quit")
          /\ events' = events /\ store' = store /\ state' = state]_vars
  /\ [][FilterCancel => filter' = "off"]_vars

C16_Witness ==
  /\ status = "quit" /\ variant = 2 /\ state = "showEvents"
  /\ filter = "off" /\ store = events /\ Len(events) = 2

\* the seconds that a decomposition stands for
SecondsBelowYear(u) ==
  u.days * secondsPerDay + u.hours * secondsPerHour
    + u.minutes * secondsPerMinute + u.seconds

SecondsOfUnits(u) ==
  [q |-> u.years * (secondsPerYear \div 400) + (SecondsBelowYear(u) \div 400),
   r |-> SecondsBelowYear(u) % 400]

\* the distance in whole seconds from the clock to the instant just shown
Distance == WideSub(probe.ts, Wide(now))

\* C17: the years, days, hours, minutes and seconds that countdownParser
\* gives for an event at t and the clock at n add up to |n - t| seconds.
C17_Reconstructs ==
  probe.fn = "countdownParser" =>
    SecondsOfUnits(probe.out.units) = WideAbs(Distance)

\* the units add up to |n - t| when that is no more than the longest
\* Duration
C17_ReconstructsInRange ==
  (probe.fn = "countdownParser" /\ ~WideLess(maxDuration, WideAbs(Distance)))
    => SecondsOfUnits(probe.out.units) = WideAbs(Distance)

\* whole days in a distance that is not negative
WholeDays(d) == d.q \div (secondsPerDay \div 400)

BandOfDays(d) ==
  IF d < 1 THEN "cUrgency6"
  ELSE IF d < 3 THEN "cUrgency5"
  ELSE IF d < 7 THEN "cUrgency4"
  ELSE IF d < 14 THEN "cUrgency3"
  ELSE IF d < 30 THEN "cUrgency2"
  ELSE "cUrgency1"

Bands ==
  {"cPast", "cUrgency6", "cUrgency5", "cUrgency4", "cUrgency3", "cUrgency2",
   "cUrgency1"}

\* the number of a band: 6 is the most urgent, 1 the least
BandNumber(color) ==
  CASE color = "cUrgency6" -> 6
    [] color = "cUrgency5" -> 5
    [] color = "cUrgency4" -> 4
    [] color = "cUrgency3" -> 3
    [] color = "cUrgency2" -> 2
    [] color = "cUrgency1" -> 1
    [] OTHER -> 0

IsPastInstant(ts) == WideLess(ts, Wide(now))

\* C18: getUrgencyColor gives every instant one band: PAST exactly when the
\* instant is before the clock, otherwise the band of the table for the
\* whole days d until it (d < 1, [1,3), [3,7), [7,14), [14,30), >= 30); and
\* for a fixed clock a later instant never gets a higher band number.
C18_BandTable ==
  probe.fn = "getUrgencyColor" =>
    /\ probe.color \in Bands
    /\ IsPastInstant(probe.ts) <=> probe.color = "cPast"
    /\ ~IsPastInstant(probe.ts) =>
         probe.color = BandOfDays(WholeDays(Distance))
    /\ \A later \in DisplayTimes :
         (~IsPastInstant(probe.ts) /\ ~WideLess(later, probe.ts))
           => BandNumber(getUrgencyColor(later, now))
                <= BandNumber(probe.color)

C18_Witness ==
  /\ probe.fn = "getUrgencyColor"
  /\ probe.color = "cUrgency3"
  /\ WholeDays(Distance) = 7

\* C19 as stated: an event exactly 24 hours after the clock is in the band
\* of [3,7) days.
C19_OneDayInThirdBand ==
  (probe.fn = "getUrgencyColor" /\ Distance = Wide(secondsPerDay))
    => probe.color = "cUrgency4"

\* C19: an event exactly 24 hours after the clock is in the band of [1,3)
\* days, and one a second sooner is in the band below one day.
C19_OneDayInSecondBand ==
  /\ (probe.fn = "getUrgencyColor" /\ Distance = Wide(secondsPerDay))
       => probe.color = "cUrgency5"
  /\ (probe.fn = "getUrgencyColor" /\ Distance = Wide(secondsPerDay - 1))
       => probe.color = "cUrgency6"

C19_Witness ==
  /\ probe.fn = "getUrgencyColor"
  /\ Distance = Wide(secondsPerDay)
  /\ probe.color = "cUrgency5"

\* the future events among the items just handed to renderTimeline
FutureCount ==
  Cardinality({i \in 1 .. Len(probe.items) : probe.items[i].Time > now})

\* C20: with k future events and window height h, renderTimeline renders
\* the min(k, budget) earliest of them in ascending order of time, where
\* budget is (h - 15) / 5 kept within 3..8, and a row with the count
\* k - budget exactly when k > budget.
C20_TimelineBudget ==
  probe.fn = "renderTimeline" =>
    /\ probe.out.budget = Min(8, Max(3, GoDiv(probe.height - 15, 5)))
    /\ probe.out.budget \in 3 .. 8
    /\ Len(probe.out.rows) = Min(FutureCount, probe.out.budget)
    /\ Sorted(probe.out.rows)
    /\ \A r \in Range(probe.out.rows) :
         /\ r \in Range(probe.items)
         /\ r.Time > now
    /\ \A e \in Range(probe.items) :
         (e.Time > now /\ e \notin Range(probe.out.rows))
           => \A r \in Range(probe.out.rows) : r.Time <= e.Time
    /\ probe.out.more > 0 <=> FutureCount > probe.out.budget
    /\ FutureCount > probe.out.budget
         => probe.out.more = FutureCount - probe.out.budget

C20_Witness ==
  /\ probe.fn = "renderTimeline"
  /\ FutureCount = 10
  /\ probe.out.budget = 5
  /\ Len(probe.out.rows) = 5
  /\ probe.out.more = 5
  /\ ~Sorted(probe.items)

\* C21: the timeline shows only events whose time is strictly after now,
\* in ascending order of time; for a collection that is not empty and has
\* no future event it shows the 'No upcoming events' hint and no bar.
C21_TimelineFutureOnly ==
  probe.fn = "renderTimeline" =>
    /\ \A r \in Range(probe.out.rows) : r.Time > now
    /\ \A i \in 1 .. Len(probe.out.rows) - 1 :
         probe.out.rows[i].Time <= probe.out.rows[i + 1].Time
    /\ (Len(probe.items) > 0 /\ FutureCount = 0) =>
         /\ probe.out.kind = "No upcoming events"
         /\ probe.out.rows = <<>>
         /\ probe.out.more = 0
    /\ probe.out.kind = "No upcoming events" =>
         (Len(probe.items) > 0 /\ FutureCount = 0)
    /\ FutureCount > 0 =>
         (probe.out.kind = "bars" /\ Len(probe.out.rows) > 0)

C21_Witness ==
  /\ probe.fn = "renderTimeline"
  /\ \E e \in Range(probe.items) : e.Time = now
  /\ FutureCount = 0
  /\ probe.out.kind = "No upcoming events"

\* the instant one calendar year after the instant with civil fields c
OneYearAfter(c) ==
  UnixOf(c.year + 1, c.month, c.day, c.hour, c.minute, c.second)

\* ts is midnight of the first November 10 that is after the clock
NextNovemberTenth(ts, clock) ==
  \E y \in 2000 .. 2037 :
    /\ ts = UnixOf(y, 11, 10, 0, 0, 0)
    /\ ts > clock
    /\ UnixOf(y - 1, 11, 10, 0, 0, 0) <= clock

\* C22: after a first run with no store, the collection and the written
\* store hold exactly one event, the anniversary, at local midnight of the
\* next November 10 (this year's if now is before it, else next year's);
\* its time is strictly after now and at most one year ahead.
C22_FirstRunSeed ==
  lastOp = "load" =>
    /\ Len(events) = 1
    /\ store = events
    /\ events[1].Name = GolangName
    /\ NextNovemberTenth(events[1].Time, now)
    /\ CivilOf(events[1].Time).month = 11
    /\ CivilOf(events[1].Time).day = 10
    /\ events[1].Time % secondsPerDay = 0
    /\ events[1].Time > now
    /\ events[1].Time <= OneYearAfter(CivilOf(now))

C22_Witness ==
  /\ lastOp = "load"
  /\ now = UnixOf(2027, 11, 10, 0, 0, 0)
  /\ store = <<[Name |-> GolangName, Time |-> UnixOf(2028, 11, 10, 0, 0, 0)]>>
  /\ events = store

\* the numbers written at fixed positions of a text
Num2(t, p) == 10 * DigitVal(t[p]) + DigitVal(t[p + 1])
Num4(t, p) == 100 * Num2(t, p) + Num2(t, p + 2)

\* t is written YYYY-MM-DD
InShortLayout(t) ==
  /\ Len(t) = 10
  /\ \A p \in {1, 2, 3, 4, 6, 7, 9, 10} : t[p] \in Digits
  /\ t[5] = "-" /\ t[8] = "-"

\* t is written YYYY-MM-DD HH:MM:SS
InLongLayout(t) ==
  /\ Len(t) = 19
  /\ InShortLayout(SubSeq(t, 1, 10))
  /\ t[11] = " "
  /\ \A p \in {12, 13, 15, 16, 18, 19} : t[p] \in Digits
  /\ t[14] = ":" /\ t[17] = ":"

\* the date written in t is a day of the calendar
DateExists(t) ==
  /\ Num2(t, 6) \in 1 .. 12
  /\ Num2(t, 9) \in 1 .. DaysIn(Num2(t, 6), Num4(t, 1))

ClockExists(t) == Num2(t, 12) < 24 /\ Num2(t, 15) < 60 /\ Num2(t, 18) < 60

MidnightOf(t) == UnixOf(Num4(t, 1), Num2(t, 6), Num2(t, 9), 0, 0, 0)

InstantOf(t) ==
  UnixOf(Num4(t, 1), Num2(t, 6), Num2(t, 9),
         Num2(t, 12), Num2(t, 15), Num2(t, 18))

\* validateInputs was applied to a name and a date text that are not empty
Validated ==
  probe.fn = "validateInputs" /\ probe.name # <<>> /\ probe.text # <<>>

\* a text of one of the two layouts is accepted and denotes local midnight
\* of its date, or its exact local instant
TwoLayoutsAccepted ==
  /\ (InShortLayout(probe.text) /\ DateExists(probe.text)) =>
       /\ probe.out.err = ""
       /\ probe.out.event = [Name |-> probe.name,
                             Time |-> MidnightOf(probe.text)]
  /\ (InLongLayout(probe.text) /\ DateExists(probe.text)
        /\ ClockExists(probe.text)) =>
       /\ probe.out.err = ""
       /\ probe.out.event = [Name |-> probe.name,
                             Time |-> InstantOf(probe.text)]

\* C23: date validation accepts exactly the two layouts: YYYY-MM-DD parses
\* to local midnight of that date, YYYY-MM-DD HH:MM:SS to that exact local
\* instant, and a text in another layout, such as "31-12-2025", is rejected
\* with the invalid-format error.
C23_ExactlyTwoLayouts ==
  Validated =>
    /\ TwoLayoutsAccepted
    /\ (~InShortLayout(probe.text) /\ ~InLongLayout(probe.text)) =>
         probe.out.err = ErrInvalidFormat

\* the two layouts are accepted, and "31-12-2025" is rejected
C23_TwoLayoutsAndExample ==
  Validated =>
    /\ TwoLayoutsAccepted
    /\ probe.text = TextX => probe.out.err = ErrInvalidFormat

\* the file is what the program writes for some collection
WrittenByProgram(file) ==
  \E items \in FileEventLists : file = MarshalIndent(items)

\* C24 as stated: the store loaded and saved again without a mutation is
\* byte for byte the store that was loaded.
C24_SaveAfterLoadIdentity ==
  (probe.fn = "saveAfterLoad" /\ probe.ok) => probe.out = probe.file

\* C24: a store that the program wrote, loaded and saved again without a
\* mutation, is byte for byte the store that was loaded; a store of other
\* bytes that loads is saved as the bytes the program writes for the same
\* events.
C24_SaveAfterLoadOfWritten ==
  probe.fn = "saveAfterLoad" =>
    /\ WrittenByProgram(probe.file) => (probe.ok /\ probe.out = probe.file)
    /\ probe.file = FileLiteral => probe.out = FileLiteral
    /\ probe.ok => (WrittenByProgram(probe.out)
                      /\ Unmarshal(probe.out) = Unmarshal(probe.file))

C24_Witness ==
  /\ probe.fn = "saveAfterLoad"
  /\ probe.file = FileLiteral
  /\ probe.ok
  /\ probe.out = probe.file

\* C25: in the historical-facts variant the fetch is issued once, at
\* startup, and by no message handler; its one completion message is
\* handled once; the loading flag is true from startup until that message
\* is handled, false from then on, and, while the program runs, the message
\* is handled in the end.
C25_FetchOnce ==
  /\ [](variant = 1 => (~fetchInFlight /\ ~onThisDay.loading))
  /\ []((variant = 2 /\ lastOp = "load") => fetchInFlight)
  /\ [](variant = 2 => (onThisDay.loading <=> fetchInFlight))
  /\ [][~fetchInFlight => ~fetchInFlight']_vars
  /\ [][~onThisDay.loading => ~onThisDay'.loading]_vars
  /\ [][(fetchInFlight /\ ~fetchInFlight') =>
          (FetchDelivered /\ onThisDay.loading /\ ~onThisDay'.loading)]_vars
  /\ [][onThisDay' # onThisDay => FetchDelivered]_vars
  /\ <>(~onThisDay.loading \/ status # "running")

C25_Witness ==
  /\ variant = 2
  /\ status = "running"
  /\ ~fetchInFlight
  /\ ~onThisDay.loading
  /\ onThisDay.err
  /\ state = "showEdit"

\* the variables of the interaction state machine and of the store: all but
\* the historical-facts fields and the marker of the last handler
interaction ==
  <<variant, status, state, focus, events, cursor, filter, nameInput, dateInput,
    inputStatus, preview, editIndex, window, widths, store, now, probe>>

\* C26: handling the fetch completion, on success and on failure, changes
\* only the historical-facts fields: mode, focus, field texts, validation
\* error, edit target, collection, store, selection and sizes stay as they
\* are; no other handler writes a historical-facts field; the message can
\* be handled in every state of a running program in which it is in
\* flight; and the keys whose handlers are decided by the mode alone are
\* accepted after the completion exactly when they were accepted before it
C26_FetchDisjoint ==
  /\ [][FetchDelivered => UNCHANGED interaction]_vars
  /\ [][~FetchDelivered => UNCHANGED <<onThisDay, fetchInFlight>>]_vars
  /\ []((Alive /\ variant = 2 /\ fetchInFlight)
          => ENABLED <<FetchArrival>>_fetchInFlight)
  /\ [][FetchDelivered =>
          /\ (ENABLED KeyQuit) = (ENABLED KeyQuit)'
          /\ (ENABLED KeyAdd) = (ENABLED KeyAdd)'
          /\ (ENABLED KeyRemove) = (ENABLED KeyRemove)'
          /\ (ENABLED KeyDown) = (ENABLED KeyDown)'
          /\ (ENABLED KeyUp) = (ENABLED KeyUp)'
          /\ (ENABLED KeyFilter) = (ENABLED KeyFilter)'
          /\ (ENABLED FilterRunes) = (ENABLED FilterRunes)'
          /\ (ENABLED FilterCancel) = (ENABLED FilterCancel)'
          /\ (ENABLED KeyBack) = (ENABLED KeyBack)']_vars

\* the completion was handled with a result while a name was being typed
\* into the form for a new event
C26_Witness ==
  /\ variant = 2
  /\ status = "running"
  /\ ~fetchInFlight
  /\ ~onThisDay.err
  /\ Len(onThisDay.events) > 0
  /\ state = "showInput"
  /\ Len(nameInput) > 0
  /\ Len(events) > 0

\* the store file of the load cannot be read, or is cut off before its end
LoadFaulted ==
  /\ probe.fn = "readEventsFile"
  /\ (~probe.readable \/ probe.file = FileTruncated)

\* C27: a load that fails aborts the process at startup, and the process
\* aborts at startup for no other reason; afterwards it aborts only in the
\* handler of a remove or of a submit, where the store is written; once
\* aborted, nothing changes any more; and a running program's collection is
\* the one the store holds
C27_FaultsFatal ==
  /\ [](LoadFaulted => (status = "panicked" /\ lastOp = "load"))
  /\ []((status = "panicked" /\ lastOp = "load") => LoadFaulted)
  /\ [][(status = "running" /\ status' = "panicked")
          => lastOp' \in {"remove", "submit"}]_vars
  /\ [][status = "panicked" => UNCHANGED vars]_vars
  /\ [](status = "running" => store = events)

\* the process aborted in a remove whose write failed, with the store still
\* holding the event removed from the collection
C27_Witness ==
  /\ status = "panicked"
  /\ lastOp = "remove"
  /\ Len(store) = Len(events) + 1

\* C28: the edit key in showEvents enters showEdit with the name and the
\* date of the selected event in the fields and the list's index as the
\* edit target; in showEdit the edit target is an index of the collection,
\* the event at it is the event that was selected, and neither changes
\* while the form is open; outside showEdit the edit target is -1
C28_EditTarget ==
  /\ [][(state = "showEvents" /\ state' = "showEdit")
          => /\ nameInput' = SelectedItem.Name
             /\ dateInput' = FormatLong(SelectedItem.Time)
             /\ editIndex' = cursor
             /\ editIndex' >= 0
             /\ editIndex' < Len(events')
             /\ events'[editIndex' + 1] = SelectedItem]_vars
  /\ [][(state = "showEdit" /\ state' = "showEdit" /\ status' = "running")
          => (editIndex' = editIndex /\ events' = events)]_vars
  /\ [](state # "showEdit" => editIndex = -1)

\* C29: Enter with the focus on the name field moves it to the date field,
\* with the focus on the date field to the cancel button, and changes
\* nothing else of the form: the mode, both texts, the validation error,
\* the edit target, the collection and the store stay as they are, also
\* where the texts would not pass validation
C29_EnterOnField ==
  [][(KeyEnter /\ focus \in {inputNameField, inputTimeField})
      => /\ focus' = (IF focus = inputNameField THEN inputTimeField
                       ELSE inputCancelButton)
         /\ UNCHANGED <<state, nameInput, dateInput, inputStatus, editIndex,
                        events, store, status, cursor>>]_vars

\* the focus was moved off the fields of a form that shows the error of an
\* earlier submit and whose name is empty
C29_Witness ==
  /\ status = "running"
  /\ InForm
  /\ focus = inputCancelButton
  /\ inputStatus # ""
  /\ nameInput = <<>>
  /\ lastOp = "none"

\* t is written in one of the two layouts and its date and clock exist
InALayout(t) ==
  \/ InShortLayout(t) /\ DateExists(t)
  \/ InLongLayout(t) /\ DateExists(t) /\ ClockExists(t)

\* the instant such a text denotes
DenotedBy(t) == IF Len(t) = 10 THEN MidnightOf(t) ELSE InstantOf(t)

\* the preview of an instant at a clock
PreviewAt(ts, clock) ==
  [datePreview |-> FormatPreview(ts)
                     \o (IF ts < clock THEN " (past event)" ELSE ""),
   dateValid |-> TRUE]

\* C30: in the form the preview is the one updateDatePreview computes from
\* the date text as it is now: no preview and not valid for the empty
\* text; the "Invalid date format" marker and not valid, or else valid, for
\* any other text; for a text in one of the two layouts valid, with the
\* instant written out and "(past event)" after it exactly when the
\* instant is before now
C30_PreviewOfText ==
  InForm =>
    /\ preview = updateDatePreview(dateInput, now)
    /\ dateInput = <<>> => preview = [datePreview |-> "", dateValid |-> FALSE]
    /\ (dateInput # <<>> /\ ~preview.dateValid) =>
         (preview.datePreview = "Invalid date format" /\ ~InALayout(dateInput))
    /\ InALayout(dateInput) =>
         preview = PreviewAt(DenotedBy(dateInput), now)
    /\ dateInput = TextX => ~preview.dateValid
    /\ dateInput = TextD =>
         preview.datePreview =
           (IF now = UnixOf(2025, 12, 30, 12, 0, 0)
              THEN "Wed, Dec 31, 2025 at 12:00 AM"
              ELSE "Wed, Dec 31, 2025 at 12:00 AM (past event)")

\* the edit form shows the date of an event that is past
C30_Witness ==
  /\ status = "running"
  /\ state = "showEdit"
  /\ dateInput = TextD \o <<" ","0","0",":","0","0",":","0","0">>
  /\ preview.dateValid
  /\ preview.datePreview = "Wed, Dec 31, 2025 at 12:00 AM (past event)"

\* the pane widths of the two terminal widths of Sizes, worked out by hand
\* from calculateWidths
WidthsAt(v, w) ==
  IF v = 1
    THEN IF w = 120 THEN [list |-> 28, detail |-> 50, timeline |-> 45]
         ELSE [list |-> 48, detail |-> 77, timeline |-> 67]
    ELSE IF w = 120 THEN [list |-> 20, detail |-> 35, timeline |-> 68]
         ELSE [list |-> 29, detail |-> 48, timeline |-> 116]

\* C31: a tick changes neither mode, focus, field texts, validation error,
\* edit target, selection, filter, collection, store nor the sizes, in
\* every mode; a resize sets the window to the size of the message and the
\* pane widths to the ones derived from its width, and changes nothing else
C31_TickAndResizeFrame ==
  /\ [][(\E clock \in NowPoints : Tick(clock))
          => UNCHANGED <<variant, status, state, focus, nameInput, dateInput,
                         inputStatus, editIndex, cursor, filter, events,
                         store, window, widths, onThisDay, fetchInFlight>>]_vars
  /\ [][(\E sz \in Sizes : Resize(sz))
          => /\ window' \in Sizes
             /\ widths' = WidthsAt(variant, window'[1])
             /\ UNCHANGED <<variant, status, state, focus, nameInput,
                            dateInput, inputStatus, preview, editIndex,
                            cursor, filter, events, store, now, onThisDay,
                            fetchInFlight>>]_vars

\* the wide window and the later clock while the edit form is open on an
\* event
C31_Witness ==
  /\ status = "running"
  /\ state = "showEdit"
  /\ window = <<200, 50>>
  /\ widths = WidthsAt(variant, 200)
  /\ now = UnixOf(2025, 12, 31, 12, 0, 0)
  /\ Len(nameInput) > 0
  /\ lastOp = "none"

\* the whole hours in the distance to the instant just shown
WholeHours(d) == d.q \div (secondsPerHour \div 400)

MonthLabels ==
  {"~1 month"} \cup {"~" \o NumStr(n) \o " months" : n \in 2 .. 12}

\* C32: the row of a future event is on the scale that the whole days d
\* until it choose, and on that one alone: hours for d = 0 (labelled
\* "< 1 hour" exactly when less than an hour is left), week for 1..7,
\* month for 8..30, year for 31..365 (labelled ~1 month to ~12 months) and
\* years for more than 365, with the whole bar filled
C32_TimelineBuckets ==
  probe.fn = "timeBar" =>
    /\ probe.out.scale \in {"hours", "week", "month", "year", "years"}
    /\ probe.out.scale = "hours" <=> WholeDays(Distance) = 0
    /\ probe.out.scale = "week" <=> WholeDays(Distance) \in 1 .. 7
    /\ probe.out.scale = "month" <=> WholeDays(Distance) \in 8 .. 30
    /\ probe.out.scale = "year" <=> WholeDays(Distance) \in 31 .. 365
    /\ probe.out.scale = "years" <=> WholeDays(Distance) > 365
    /\ probe.out.label = "< 1 hour" <=> WholeHours(Distance) = 0
    /\ probe.out.scale = "year" => probe.out.label \in MonthLabels
    /\ probe.out.scale = "years" =>
         (probe.out.blocks = barWidthOf(probe.width) /\ probe.out.empty = 0)

\* an event 365 days and 23:59:59 away is on the scale of a year, as ~12
\* months
C32_Witness ==
  /\ probe.fn = "timeBar"
  /\ probe.out.scale = "year"
  /\ probe.out.label = "~12 months"
  /\ WholeDays(Distance) = 365

\* the count that a bar shows and the length of its scale, chosen by the
\* whole days d and the whole hours h of the distance
BarCount(d, h) == IF d = 0 THEN h ELSE d

BarScale(d) ==
  IF d = 0 THEN 24 ELSE IF d <= 7 THEN 7 ELSE IF d <= 30 THEN 30 ELSE 365

\* C33 as stated: the filled blocks of the row of a future event are the
\* nearest whole number to count / scale * barWidth (hours / 24, days / 7,
\* days / 30 or days / 365), raised to 1 and held to barWidth
C33_FillRounded ==
  probe.fn = "timeBar" =>
    probe.out.blocks =
      blocksRounded(BarCount(WholeDays(Distance), WholeHours(Distance)),
                    BarScale(WholeDays(Distance)), barWidthOf(probe.width))

\* C33: the filled blocks of the row of a future event are the whole part
\* of count * barWidth / scale (hours / 24, days / 7, days / 30 or
\* days / 365), raised to 1 and held to barWidth; the bar is 10 to 40 wide,
\* the filled blocks are between 1 and barWidth and the empty ones are the
\* rest of the bar, never fewer than none
C33_FillTruncated ==
  probe.fn = "timeBar" =>
    /\ barWidthOf(probe.width) \in 10 .. 40
    /\ probe.out.blocks =
         Min(barWidthOf(probe.width),
             Max(1, (BarCount(WholeDays(Distance), WholeHours(Distance))
                       * barWidthOf(probe.width))
                      \div BarScale(WholeDays(Distance))))
    /\ probe.out.blocks \in 1 .. barWidthOf(probe.width)
    /\ probe.out.empty = barWidthOf(probe.width) - probe.out.blocks
    /\ probe.out.empty >= 0

\* two days on a bar of 20: 40 / 7 is 5.71..., and five blocks are filled
C33_Witness ==
  /\ probe.fn = "timeBar"
  /\ WholeDays(Distance) = 2
  /\ barWidthOf(probe.width) = 20
  /\ probe.out.blocks = 5
  /\ probe.out.empty = 15

\* the units of a decomposition from years down, each with its letter
UnitTexts(u) ==
  <<NumStr(u.years) \o "y", NumStr(u.days) \o "d", NumStr(u.hours) \o "h",
    NumStr(u.minutes) \o "m", NumStr(u.seconds) \o "s">>

UnitValues(u) == <<u.years, u.days, u.hours, u.minutes, u.seconds>>

\* the first unit that is not zero, or the seconds when all are
FirstShown(u) ==
  CHOOSE i \in 1 .. 5 :
    /\ i = 5 \/ UnitValues(u)[i] > 0
    /\ \A j \in 1 .. i - 1 : UnitValues(u)[j] = 0

RECURSIVE JoinFrom(_, _)
JoinFrom(texts, i) ==
  IF i = Len(texts) THEN texts[i] ELSE texts[i] \o " " \o JoinFrom(texts, i + 1)

\* the text that shows every unit from the first that is not zero down to
\* the seconds, with " ago" behind it when marked
TextFromFirst(u, marked) ==
  JoinFrom(UnitTexts(u), FirstShown(u)) \o (IF marked THEN " ago" ELSE "")

\* the event shown is before time.Now()
EventBeforeNow ==
  \/ WideLess(probe.ts, Wide(now))
  \/ (probe.ts = Wide(now) /\ probe.part)

\* C34 as stated: both compact strings, of the list row and of the details
\* pane, show the units from the first that is not zero down to the
\* seconds, only the seconds when less than a minute is shown, and end in
\* " ago" exactly when the event time is before now
C34_CompactString ==
  probe.fn = "compactString" =>
    /\ probe.rowText = TextFromFirst(probe.row.units, EventBeforeNow)
    /\ probe.detailsText = TextFromFirst(probe.details.units, EventBeforeNow)

\* the part of C34 that holds: the units shown by both strings, each marked
\* as its own isPast says, and the marker of the details pane, which is
\* there exactly when the event time is before now
C34_CompactUnits ==
  probe.fn = "compactString" =>
    /\ probe.rowText = TextFromFirst(probe.row.units, probe.row.isPast)
    /\ probe.detailsText = TextFromFirst(probe.details.units, EventBeforeNow)
    /\ probe.row.units = probe.details.units
    /\ probe.row.isPast => EventBeforeNow

\* the row of an event whose second has begun: "0s" in the list, "0s ago"
\* in the details pane
C34_Diverges ==
  /\ probe.fn = "compactString"
  /\ probe.ts = Wide(now)
  /\ probe.part
  /\ probe.rowText = "0s"
  /\ probe.detailsText = "0s ago"

\* what renderTimeline marks in the state as it is
timelineNow == timelineMarkers(events, cursor, now, window[2])

\* View renders the timeline: the plain program, browsing, with an item
\* selected
TimelineShown ==
  /\ status = "running"
  /\ variant = 1
  /\ state = "showEvents"
  /\ HasSelection

MarkedRows == {i \in 1 .. Len(timelineNow) : timelineNow[i].marker = "selected"}

\* the selected event has a row among those shown
SelectedHasRow ==
  \E i \in 1 .. Len(timelineNow) :
    timelineNow[i].index = VisibleItems[cursor + 1] - 1

\* C35 as stated: at most one row shown in the timeline is marked as
\* selected; a row is marked exactly when the place of its event in the
\* collection is the selection index; no row is marked when the selected
\* event is past or beyond the rows shown; every other row has the default
\* marker in the colour of its urgency band
C35_SelectedMarker ==
  TimelineShown =>
    /\ Cardinality(MarkedRows) <= 1
    /\ \A i \in 1 .. Len(timelineNow) :
         /\ i \in MarkedRows <=> timelineNow[i].index = cursor
         /\ i \in MarkedRows => timelineNow[i].style = "TimelineSelectedStyle"
         /\ i \notin MarkedRows =>
              /\ timelineNow[i].marker = "future"
              /\ timelineNow[i].style =
                   getUrgencyColor(Wide(events[timelineNow[i].index + 1].Time),
                                   now)
    /\ ~SelectedHasRow => MarkedRows = {}

\* the same statement while the list shows all its items
C35_SelectedMarkerUnfiltered ==
  filter = "off" => C35_SelectedMarker

\* a filter shows the past event "b" alone and selects it, and the
\* timeline marks the row of the future event "a"
C35_MarksUnselected ==
  /\ TimelineShown
  /\ filter \in {"matching", "applied"}
  /\ ~SelectedHasRow
  /\ MarkedRows # {}

\* the selected event, unfiltered, is future and has the marked row
C35_Witness ==
  /\ TimelineShown
  /\ filter = "off"
  /\ Len(events) = 2
  /\ cursor = 1
  /\ MarkedRows # {}
  /\ Len(timelineNow) = 2

\* C36 as stated: the preview and the submit of a date text parse it in the
\* same layout, and with a name that is not empty the preview marks the
\* text valid exactly when the submit succeeds
C36_PreviewIffSubmit ==
  (probe.fn = "validateInputs" /\ probe.name # <<>>) =>
    /\ previewLayout(probe.text) = validateLayout(probe.text)
    /\ probe.preview.dateValid <=> probe.out.err = ""

\* the part of C36 that holds: a text that the submit accepts is previewed
\* as valid, and the two differ only on texts of 11 to 18 characters
C36_SubmitImpliesPreview ==
  (probe.fn = "validateInputs" /\ probe.name # <<>>) =>
    /\ probe.out.err = "" => probe.preview.dateValid
    /\ Len(probe.text) \notin 11 .. 18 =>
         /\ previewLayout(probe.text) = validateLayout(probe.text)
         /\ probe.preview.dateValid <=> probe.out.err = ""

\* "2025-12-31 1:30:00" is previewed as valid and refused at the submit
C36_Diverges ==
  /\ probe.fn = "validateInputs"
  /\ probe.name = <<"a">>
  /\ probe.text = TextShortHour
  /\ probe.preview.dateValid
  /\ probe.out.err = ErrInvalidFormat

\* everything but the mark of the last handler
allButLastOp == <<variant, status, state, events, cursor, filter, form, window,
                  widths, store, now, onThisDay, fetchInFlight, probe>>

\* C37: in noEvents the add key opens the add form and the quit key ends
\* the program, each changing nothing else, the remove and edit keys change
\* nothing, and no key but add and quit changes anything; in showInput and
\* showEdit the add, remove, edit and quit keys leave the mode, the
\* collection, the store, the focus and the edit target as they are, the
\* program keeps running, and the most they do is put their rune at the end
\* of the focused field
C37_ModesGateKeys ==
  /\ [][\A k \in GateKeys : Press(k) =>
          /\ (state = "noEvents" /\ k = "+") =>
               /\ state' = "showInput"
               /\ UNCHANGED <<status, events, store, form, cursor>>
          /\ (state = "noEvents" /\ k = "q") =>
               /\ status' = "quit"
               /\ UNCHANGED <<state, events, store, form, cursor>>
          /\ (state = "noEvents" /\ k \in {"-", "e"}) =>
               UNCHANGED allButLastOp
          /\ InForm =>
               /\ status' = "running"
               /\ UNCHANGED <<state, events, store, cursor, focus, editIndex,
                              inputStatus, filter>>
               /\ nameInput' \in {nameInput, nameInput \o <<k>>}
               /\ dateInput' \in {dateInput, dateInput \o <<k>>}
               /\ focus # inputNameField => nameInput' = nameInput
               /\ focus # inputTimeField => dateInput' = dateInput]_vars
  /\ [][state = "noEvents" =>
          \/ Press("+")
          \/ Press("q")
          \/ UNCHANGED allButLastOp]_vars

\* the quit key typed into the name of the add form of an empty collection
C37_Witness ==
  /\ status = "running"
  /\ state = "showInput"
  /\ Len(events) = 0
  /\ nameInput = <<"q">>
  /\ store = events

UnitsInRange(u) ==
  /\ u.years \in Nat
  /\ u.days \in 0 .. 365
  /\ u.hours \in 0 .. 23
  /\ u.minutes \in 0 .. 59
  /\ u.seconds \in 0 .. 59

\* C38: whatever the event time and the clock, the units of the countdown
\* are natural numbers with at most 365 days, 23 hours, 59 minutes and 59
\* seconds; the seconds of the day that the day progress divides by 86400
\* are therefore in 0 .. 86399, the fraction at least 0 and less than 1,
\* and its bar has between none and all of its blocks filled, never more
\* than the fraction of them
C38_UnitsBounded ==
  /\ probe.fn = "countdownParser" => UnitsInRange(probe.out.units)
  /\ probe.fn = "dayProgress" =>
       /\ UnitsInRange(probe.units)
       /\ probe.units.hours * 3600 + probe.units.minutes * 60
            + probe.units.seconds \in 0 .. secondsPerDay - 1
       /\ probe.width \in 10 .. 30
       /\ probe.bar.filled \in 0 .. probe.width
       /\ probe.bar.empty = probe.width - probe.bar.filled
       /\ probe.bar.filled * secondsPerDay
            <= (probe.units.hours * 3600 + probe.units.minutes * 60
                  + probe.units.seconds) * probe.width

\* one second less than a year of 365.25 days: 365 days, 5:59:59
C38_Witness ==
  /\ probe.fn = "dayProgress"
  /\ probe.units.years = 0
  /\ probe.units.days = 365
  /\ probe.units.hours = 5
  /\ probe.units.minutes = 59
  /\ probe.units.seconds = 59
  /\ probe.bar.filled < probe.width

\* the edit form holds what the edit key put into it for the event at
\* editIndex
FieldsAsFilled ==
  /\ state = "showEdit"
  /\ editIndex \in 0 .. Len(events) - 1
  /\ nameInput = events[editIndex + 1].Name
  /\ dateInput = FormatLong(events[editIndex + 1].Time)

\* the submit of an edit form whose fields are as the edit key filled them
SubmitUnchanged == SubmitStep /\ FieldsAsFilled /\ status' = "running"

AloneAtItsTime(items, i) ==
  \A j \in 1 .. Len(items) : j # i => items[j].Time # items[i].Time

\* the part of C39 that holds: the same events are in the collection after
\* the submit, each as often as before, and in a collection in time order
\* whose edited event is alone at its time they are at the same places
C39_EditUnchangedSameEvents ==
  [][(SubmitUnchanged /\ lastOp' = "submit") =>
       /\ \A x \in Range(events) \cup Range(events') :
            Count(x, events') = Count(x, events)
       /\ (Sorted(events) /\ AloneAtItsTime(events, editIndex + 1)) =>
            events' = events]_vars

\* after an edit that was submitted, the collection in the order "b", "a"
\* of two events at one time
C39_Reordered ==
  /\ lastOp = "submit"
  /\ state = "showEvents"
  /\ Len(events) = 2
  /\ events[1].Name = <<"b">>
  /\ events[2].Name = <<"a">>
  /\ events[1].Time = events[2].Time

\* mode, focus, field texts, validation error, edit target, collection and
\* store
core == <<state, focus, nameInput, dateInput, inputStatus, editIndex, events,
          store>>

====
